---- MODULE Spec2Model ----
(***************************************************************************)
(* Verification model of the urban_tree_planting core.                     *)
(*                                                                         *)
(* Numbers.  The Python code computes in IEEE floating point; the model    *)
(* computes in exact integer / rational arithmetic:                        *)
(*   - geographic coordinates are integers (an arbitrary angular unit);    *)
(*   - pixel distances are kept squared (d2 = dx^2 + dy^2), so that every  *)
(*     comparison "distance <= t" of the code is the exact comparison      *)
(*     d2 <= t^2;                                                          *)
(*   - scores are kept in 1/1000 of a point (35 points = 35000);           *)
(*   - shadow intensity is kept in 1/100 (0.3 = 30).                       *)
(***************************************************************************)
EXTENDS Integers, Sequences, FiniteSets, TLC

VARIABLES
    pc,                 \* position of the modelled call
    \* utils/geo_utils.py: latlon_to_pixel / pixel_to_latlon
    lat, lon,           \* the geographic point handed to latlon_to_pixel
    bounds,             \* <<min_lon, min_lat, max_lon, max_lat>>
    image_size,         \* <<img_width, img_height>>
    pixel,              \* <<x_pixel, y_pixel>> returned by latlon_to_pixel
    latlon,             \* what pixel_to_latlon returned for that pixel
    \* core/priority_calculator.py: the arguments of PriorityCalculator.calculate
    shadow_intensity,   \* [pixel -> intensity in 1/100]
    sidewalk_mask,      \* the True pixels of each boolean mask
    building_mask,
    street_mask,
    vegetation_mask,
    amenities_gdf,      \* sequence of rows [geom_type, y (lat), x (lon)]
    result,             \* what the call returned, or that it raised
    \* core/transformer.py: GeometryTransformer.filter_streets_by_type
    streets_gdf,        \* sequence of rows [highway, idx]
    street_dict,        \* the dictionary of the four tiers it returned
    \* core/mask_generator.py: the arguments of the MaskGenerator methods
    geometries_gdf,     \* sequence of rows [geom_type, parts]
    tier_streets,       \* the four street collections, by tier
    masks,              \* what each method returned, by method name
    \* the objects of the stages: GeometryTransformer.align, then
    \* PriorityCalculator.calculate
    store,              \* the sequence of the objects made so far
    args,               \* the arguments of the two calls, objects by position in store
    returned,           \* by method name, the positions of the objects it returned
    \* core/detector.py: VegetationDetector.detect
    img_array,          \* the RGB image, [pixel -> <<r, g, b>>]
    detection,          \* the arrays of detect, by local variable name
    \* core/visualizer.py: ResultVisualizer.create_summary_statistics
    critical_spots,     \* the list _extract_critical_spots returned
    \* core/downloader.py: DataDownloader._download_buildings / _download_streets
    download            \* the call: its arguments, its position, what it did

geo_vars == <<lat, lon, bounds, image_size, pixel, latlon>>
calc_vars == <<shadow_intensity, sidewalk_mask, building_mask, street_mask,
               vegetation_mask, amenities_gdf, result>>
filter_vars == <<streets_gdf, street_dict>>
mask_vars == <<geometries_gdf, tier_streets, masks>>
store_vars == <<store, args, returned>>
detect_vars == <<img_array, detection>>
summary_vars == <<critical_spots>>
download_vars == <<download>>
stage_vars == <<filter_vars, mask_vars, store_vars, detect_vars, summary_vars,
                download_vars>>
vars == <<pc, geo_vars, calc_vars, stage_vars>>

NoValue == "none"

\* the variables of a component while another component's call is modelled
GeoIdle ==
    /\ lat = 0 /\ lon = 0 /\ pixel = NoValue /\ latlon = NoValue
    /\ bounds = <<0, 0, 1, 1>> /\ image_size = <<1, 1>>
CalcIdle ==
    /\ shadow_intensity = NoValue /\ sidewalk_mask = {} /\ building_mask = {}
    /\ street_mask = {} /\ vegetation_mask = {} /\ amenities_gdf = <<>>
    /\ result = NoValue
FilterIdle == streets_gdf = <<>> /\ street_dict = NoValue
MaskIdle == geometries_gdf = <<>> /\ tier_streets = NoValue /\ masks = <<>>
StoreIdle == store = <<>> /\ args = NoValue /\ returned = <<>>
DetectIdle == img_array = <<>> /\ detection = <<>>
SummaryIdle == critical_spots = NoValue
DownloadIdle == download = NoValue
StagesIdle == /\ FilterIdle /\ MaskIdle /\ StoreIdle /\ DetectIdle
              /\ SummaryIdle /\ DownloadIdle

Abs(a) == IF a >= 0 THEN a ELSE -a
Max(a, b) == IF a >= b THEN a ELSE b
Min(a, b) == IF a <= b THEN a ELSE b

(***************************************************************************)
(* utils/geo_utils.py                                                      *)
(***************************************************************************)

\* Python's int(n / d) for d > 0: the quotient truncated toward zero.
PyInt(n, d) == IF n >= 0 THEN n \div d ELSE -((-n) \div d)

\* int(n / d) replaced by rounding to the nearest integer (halves away from 0).
PyIntRounded(n, d) == IF n >= 0 THEN (2 * n + d) \div (2 * d)
                                ELSE -((2 * (-n) + d) \div (2 * d))

\* x_norm = (lon - min_lon) / (max_lon - min_lon); x_pixel = int(x_norm * img_width)
\* y_norm = (max_lat - lat) / (max_lat - min_lat); y_pixel = int(y_norm * img_height)
latlon_to_pixel_rounding(la, lo, min_lat, max_lat, min_lon, max_lon, img_height, img_width) ==
    << PyIntRounded((lo - min_lon) * img_width, max_lon - min_lon),
       PyIntRounded((max_lat - la) * img_height, max_lat - min_lat) >>

latlon_to_pixel(la, lo, min_lat, max_lat, min_lon, max_lon, img_height, img_width) ==
    << PyInt((lo - min_lon) * img_width, max_lon - min_lon),
       PyInt((max_lat - la) * img_height, max_lat - min_lat) >>

\* pixel_to_latlon returns (lat, lon) as exact fractions
\*   lat = lat_num / img_height,  lon = lon_num / img_width.
\* The variant without the y inversion measures y_norm from min_lat upward.
pixel_to_latlon_not_inverted(x_pixel, y_pixel, min_lat, max_lat, min_lon, max_lon, img_height, img_width) ==
    [ lat_num |-> min_lat * img_height + y_pixel * (max_lat - min_lat),
      lon_num |-> min_lon * img_width + x_pixel * (max_lon - min_lon) ]

pixel_to_latlon(x_pixel, y_pixel, min_lat, max_lat, min_lon, max_lon, img_height, img_width) ==
    [ lat_num |-> max_lat * img_height - y_pixel * (max_lat - min_lat),
      lon_num |-> min_lon * img_width + x_pixel * (max_lon - min_lon) ]

\* ---- inputs of the projection specification ----
GeoMaxCoord == 9        \* largest coordinate of a GeoBounds corner
GeoMargin == 3          \* how far outside GeoBounds a point may lie
GeoMaxSide == 7         \* largest image side

\* GeoBounds: min_lon < max_lon, min_lat < max_lat
GeoBoundsSet == { <<0, 0, GeoMaxCoord, GeoMaxCoord - 2>>,
                  <<1, 2, GeoMaxCoord - 1, GeoMaxCoord>> }
GeoSizes == { <<3, 2>>, <<GeoMaxSide, GeoMaxSide - 2>>, <<2 * GeoMaxSide, 3 * GeoMaxSide>> }
GeoCoords == (0 - GeoMargin) .. (GeoMaxCoord + GeoMargin)

min_lon == bounds[1]
min_lat == bounds[2]
max_lon == bounds[3]
max_lat == bounds[4]
img_width == image_size[1]
img_height == image_size[2]

InsideGeoBounds == /\ min_lon <= lon /\ lon <= max_lon
                   /\ min_lat <= lat /\ lat <= max_lat

GeoInit ==
    /\ pc = "geo_start"
    /\ lat \in GeoCoords
    /\ lon \in GeoCoords
    /\ bounds \in GeoBoundsSet
    /\ image_size \in GeoSizes
    /\ pixel = NoValue
    /\ latlon = NoValue
    /\ shadow_intensity = NoValue
    /\ sidewalk_mask = {}
    /\ building_mask = {}
    /\ street_mask = {}
    /\ vegetation_mask = {}
    /\ amenities_gdf = <<>>
    /\ result = NoValue
    /\ StagesIdle

Project ==
    /\ pc = "geo_start"
    /\ pixel' = latlon_to_pixel(lat, lon, min_lat, max_lat, min_lon, max_lon,
                                img_height, img_width)
    /\ pc' = "projected"
    /\ UNCHANGED <<lat, lon, bounds, image_size, latlon, calc_vars, stage_vars>>

Unproject ==
    /\ pc = "projected"
    /\ latlon' = pixel_to_latlon(pixel[1], pixel[2], min_lat, max_lat, min_lon, max_lon,
                                 img_height, img_width)
    /\ pc' = "unprojected"
    /\ UNCHANGED <<lat, lon, bounds, image_size, pixel, calc_vars, stage_vars>>

GeoNext == Project \/ Unproject

SpecGeo == GeoInit /\ [][GeoNext]_vars

\* ---------------------------------------------------------------------------
\* C9 (as stated): latlon_to_pixel returns the nearest integer pixel coordinate,
\* x = round((lon - min_lon) / (max_lon - min_lon) * width) and
\* y = round((max_lat - lat) / (max_lat - min_lat) * height).
C9_RoundsToNearest ==
    pc = "projected" =>
        /\ 2 * Abs(pixel[1] * (max_lon - min_lon) - (lon - min_lon) * img_width)
              <= max_lon - min_lon
        /\ 2 * Abs(pixel[2] * (max_lat - min_lat) - (max_lat - lat) * img_height)
              <= max_lat - min_lat

\* C9 (amended): latlon_to_pixel returns the exact products truncated toward
\* zero (the floor for a point inside GeoBounds), top-left origin, y growing
\* downward: x <= (lon - min_lon) / (max_lon - min_lon) * width < x + 1 when the
\* product is >= 0, and x - 1 < product <= x when it is negative; same for y
\* with (max_lat - lat) / (max_lat - min_lat) * height.
TruncatedToward0(p, n, d) ==
    IF n >= 0 THEN p * d <= n /\ n < (p + 1) * d
              ELSE (p - 1) * d < n /\ n <= p * d

C9_Truncates ==
    pc = "projected" =>
        /\ TruncatedToward0(pixel[1], (lon - min_lon) * img_width, max_lon - min_lon)
        /\ TruncatedToward0(pixel[2], (max_lat - lat) * img_height, max_lat - min_lat)

\* a point inside GeoBounds whose exact x lies in the upper half of its pixel
\* has been projected, and so has a point west of GeoBounds (negative product)
C9_Witness ==
    /\ pc = "projected"
    /\ InsideGeoBounds
    /\ 2 * (((lon - min_lon) * img_width) % (max_lon - min_lon)) > max_lon - min_lon
    /\ pixel[2] > 0

\* C10: for (lat, lon) inside GeoBounds, pixel_to_latlon(latlon_to_pixel(lat, lon))
\* is within one pixel's angular resolution of (lat, lon) on each axis:
\* |lon' - lon| <= (max_lon - min_lon) / width, |lat' - lat| <= (max_lat - min_lat) / height.
C10_RoundTrip ==
    (pc = "unprojected" /\ InsideGeoBounds) =>
        /\ Abs(latlon.lon_num - lon * img_width) <= max_lon - min_lon
        /\ Abs(latlon.lat_num - lat * img_height) <= max_lat - min_lat

\* a round trip of an inside point that did not come back to the same point
C10_Witness ==
    /\ pc = "unprojected"
    /\ InsideGeoBounds
    /\ latlon.lon_num # lon * img_width
    /\ latlon.lat_num # lat * img_height
    /\ pixel[2] > 0

(***************************************************************************)
(* config/settings.py                                                      *)
(***************************************************************************)
SCORE_SIDEWALK == 35
SCORE_BUILDING == 25
SCORE_SUN == 20
SCORE_AMENITY == 10
PRIORITY_CRITICAL_MIN == 80
PRIORITY_HIGH_MIN == 60
PRIORITY_MEDIUM_MIN == 40

(***************************************************************************)
(* core/priority_calculator.py                                             *)
(***************************************************************************)

\* n points, in the model's score unit of 1/1000 point
Points(n) == n * 1000

\* the pixels <<x, y>> of an array of shape (height, width)
Pixels == (0 .. img_width - 1) \X (0 .. img_height - 1)

ZeroGrid == [p \in Pixels |-> 0]

SetMin(S) == CHOOSE m \in S : \A n \in S : m <= n
SetMax(S) == 0 - SetMin({ 0 - n : n \in S })

DistSq(p, q) == (p[1] - q[1]) * (p[1] - q[1]) + (p[2] - q[2]) * (p[2] - q[2])

\* distance_transform_edt(~mask)[p], squared: the distance from p to the
\* nearest True pixel of mask (mask is not empty where the code calls it)
distance_transform_edt_sq(mask, p) == SetMin({ DistSq(p, q) : q \in mask })

\* the three masked assignments of _calculate_sidewalk_priority, in order,
\* on one pixel at squared distance d2
sidewalk_tier_strict(d2) ==
    LET s0 == 0
        s1 == IF d2 < 20 * 20 THEN Points(35) ELSE s0
        s2 == IF d2 >= 20 * 20 /\ d2 < 50 * 50 THEN Points(20) ELSE s1
        s3 == IF d2 >= 50 * 50 THEN Points(5) ELSE s2
    IN  s3

sidewalk_tier(d2) ==
    LET s0 == 0
        s1 == IF d2 <= 20 * 20 THEN Points(35) ELSE s0
        s2 == IF d2 > 20 * 20 /\ d2 <= 50 * 50 THEN Points(20) ELSE s1
        s3 == IF d2 > 50 * 50 THEN Points(5) ELSE s2
    IN  s3

_calculate_sidewalk_priority(mask) ==
    IF mask = {} THEN ZeroGrid
    ELSE [p \in Pixels |-> sidewalk_tier(distance_transform_edt_sq(mask, p))]

\* distance_m = distance_px * 0.6, compared with t meters:
\*   distance_m >= t  <=>  (3/5)^2 * d2 >= t^2  <=>  9 * d2 >= 25 * t^2
MetersGE(d2, t) == 9 * d2 >= 25 * t * t
MetersLE(d2, t) == 9 * d2 <= 25 * t * t
MetersGT(d2, t) == ~MetersLE(d2, t)
MetersLT(d2, t) == ~MetersGE(d2, t)

\* the four masked assignments of _calculate_building_priority, in order;
\* the variant scores the too-close zone from 0 m inclusive
building_tier_from_zero(d2) ==
    LET s0 == 0
        s1 == IF MetersGE(d2, 5) /\ MetersLE(d2, 15) THEN Points(25) ELSE s0
        s2 == IF MetersGT(d2, 15) /\ MetersLE(d2, 30) THEN Points(15) ELSE s1
        s3 == IF MetersGE(d2, 0) /\ MetersLT(d2, 5) THEN Points(10) ELSE s2
        s4 == IF MetersGT(d2, 30) THEN Points(5) ELSE s3
    IN  s4

\* the variant without the too-close zone
building_tier_without_close_zone(d2) ==
    LET s0 == 0
        s1 == IF MetersGE(d2, 5) /\ MetersLE(d2, 15) THEN Points(25) ELSE s0
        s2 == IF MetersGT(d2, 15) /\ MetersLE(d2, 30) THEN Points(15) ELSE s1
        s4 == IF MetersGT(d2, 30) THEN Points(5) ELSE s2
    IN  s4

building_tier(d2) ==
    LET s0 == 0
        s1 == IF MetersGE(d2, 5) /\ MetersLE(d2, 15) THEN Points(25) ELSE s0
        s2 == IF MetersGT(d2, 15) /\ MetersLE(d2, 30) THEN Points(15) ELSE s1
        s3 == IF MetersGT(d2, 0) /\ MetersLT(d2, 5) THEN Points(10) ELSE s2
        s4 == IF MetersGT(d2, 30) THEN Points(5) ELSE s3
    IN  s4

_calculate_building_priority(mask) ==
    IF mask = {} THEN ZeroGrid
    ELSE [p \in Pixels |-> building_tier(distance_transform_edt_sq(mask, p))]

\* the three masked assignments of _calculate_sun_priority on one pixel of
\* intensity s (in 1/100); the variant leaves the 0.6 boundary unassigned
sun_tier_open(s) ==
    LET s0 == 0
        s1 == IF s < 30 THEN Points(20) ELSE s0
        s2 == IF s >= 30 /\ s < 60 THEN Points(12) ELSE s1
        s3 == IF s > 60 THEN Points(5) ELSE s2
    IN  s3

sun_tier(s) ==
    LET s0 == 0
        s1 == IF s < 30 THEN Points(20) ELSE s0
        s2 == IF s >= 30 /\ s < 60 THEN Points(12) ELSE s1
        s3 == IF s >= 60 THEN Points(5) ELSE s2
    IN  s3

_calculate_sun_priority(intensity) == [p \in Pixels |-> sun_tier(intensity[p])]

\* ---- _calculate_amenity_priority ----
sample_radius_m == 50

\* radius_px = int(sample_radius_m / meters_per_pixel), meters_per_pixel = 0.3
radius_px == PyInt(sample_radius_m * 10, 3)
kernel_size == radius_px * 2 + 1

\* floor(u * n / d) for 0 <= n <= d, without leaving 32 bits
MulFrac(u, n, d) == (u \div d) * n + ((u % d) * n) \div d

\* exp(-n/d) for 0 <= n <= d, in 1/10^9, by the Taylor polynomial of degree
\* 10 in Horner form: h(k-1) = 1 - (n/d) * h(k) / k
RECURSIVE ExpNegHorner(_, _, _, _)
ExpNegHorner(k, h, n, d) ==
    IF k = 0 THEN h
    ELSE ExpNegHorner(k - 1, 1000000000 - MulFrac(h \div k, n, d), n, d)

\* np.exp(-(dist / radius_px)**2) as a float32 kernel entry, kept in 1/10^4,
\* tabulated over the squared distances inside the circle
GaussianFalloffTable ==
    [d2 \in 0 .. radius_px * radius_px |->
        ExpNegHorner(10, 1000000000, d2, radius_px * radius_px) \div 100000]

GaussianFalloff(d2) == GaussianFalloffTable[d2]

\* kernel[i, j]; the variant omits the "if dist <= radius_px" test, so the
\* square's corners keep the falloff value instead of 0
kernel_without_circle(i, j) ==
    LET d2 == (i - radius_px) * (i - radius_px) + (j - radius_px) * (j - radius_px)
    IN  GaussianFalloff(Min(d2, radius_px * radius_px))

kernel(i, j) ==
    LET d2 == (i - radius_px) * (i - radius_px) + (j - radius_px) * (j - radius_px)
    IN  IF d2 <= radius_px * radius_px THEN GaussianFalloff(d2) ELSE 0

\* a[start:stop] on an axis of length n: Python's slice, as <<first, length>>
PySlice(start, stop, n) ==
    LET norm(i) == IF i < 0 THEN Max(i + n, 0) ELSE Min(i, n)
    IN  << norm(start), Max(norm(stop) - norm(start), 0) >>

\* numpy's in-place "+=": the right side must broadcast to the left side's
\* shape, axis by axis (equal lengths, or length 1 on the right)
Broadcasts(llen, rlen) == rlen = llen \/ rlen = 1

\* one iteration of the "Apply kernel around each amenity" loop
ApplyKernel(density_map, px_x, px_y) ==
    LET y_start == Max(0, px_y - radius_px)
        y_end == Min(img_height, px_y + radius_px + 1)
        x_start == Max(0, px_x - radius_px)
        x_end == Min(img_width, px_x + radius_px + 1)
        ky_start == radius_px - (px_y - y_start)
        ky_end == radius_px + (y_end - px_y)
        kx_start == radius_px - (px_x - x_start)
        kx_end == radius_px + (x_end - px_x)
        ys == PySlice(y_start, y_end, img_height)
        xs == PySlice(x_start, x_end, img_width)
        kys == PySlice(ky_start, ky_end, kernel_size)
        kxs == PySlice(kx_start, kx_end, kernel_size)
        inWindow(p) == /\ xs[1] <= p[1] /\ p[1] < xs[1] + xs[2]
                       /\ ys[1] <= p[2] /\ p[2] < ys[1] + ys[2]
        ki(p) == kys[1] + (IF kys[2] = 1 THEN 0 ELSE p[2] - ys[1])
        kj(p) == kxs[1] + (IF kxs[2] = 1 THEN 0 ELSE p[1] - xs[1])
    IN  IF Broadcasts(ys[2], kys[2]) /\ Broadcasts(xs[2], kxs[2])
        THEN [ raised |-> FALSE,
               map |-> [p \in Pixels |->
                          IF inWindow(p) THEN density_map[p] + kernel(ki(p), kj(p))
                                         ELSE density_map[p]] ]
        ELSE [ raised |-> TRUE, map |-> density_map ]    \* ValueError

\* the loop over amenity_pixels; an exception ends it
RECURSIVE ApplyKernels(_, _)
ApplyKernels(density, amenity_pixels) ==
    IF density.raised \/ amenity_pixels = <<>> THEN density
    ELSE ApplyKernels(ApplyKernel(density.map, Head(amenity_pixels)[1],
                                  Head(amenity_pixels)[2]),
                      Tail(amenity_pixels))

\* the pixel coordinates of the rows whose geometry is a Point
RECURSIVE AmenityPixels(_)
AmenityPixels(gdf) ==
    IF gdf = <<>> THEN <<>>
    ELSE LET row == Head(gdf)
         IN  (IF row.geom_type = "Point"
              THEN << latlon_to_pixel(row.y, row.x, min_lat, max_lat, min_lon, max_lon,
                                      img_height, img_width) >>
              ELSE <<>>) \o AmenityPixels(Tail(gdf))

\* "Normalize to 0-1" and "Scale to max_points"; the variant skips the
\* normalisation and scales the raw density
NormalizeAndScale_raw(density_map, max_points) ==
    [p \in Pixels |-> (density_map[p] * Points(max_points)) \div 10000]

NormalizeAndScale(density_map, max_points) ==
    LET m == SetMax({ density_map[p] : p \in Pixels })
    IN  IF m > 0
        THEN [p \in Pixels |-> (density_map[p] * Points(max_points)) \div m]
        ELSE [p \in Pixels |-> (density_map[p] * Points(max_points)) \div 10000]

\* returns [raised, map]: map is the amenity score grid when nothing raised
_calculate_amenity_priority(gdf, max_points) ==
    IF Len(gdf) = 0 THEN [raised |-> FALSE, map |-> ZeroGrid]
    ELSE LET amenity_pixels == AmenityPixels(gdf)
         IN  IF Len(amenity_pixels) = 0 THEN [raised |-> FALSE, map |-> ZeroGrid]
             ELSE LET density == ApplyKernels([raised |-> FALSE, map |-> ZeroGrid],
                                              amenity_pixels)
                  IN  IF density.raised THEN density
                      ELSE [raised |-> FALSE,
                            map |-> NormalizeAndScale(density.map, max_points)]

\* ---- calculate ----
\* valid_area = (~building_mask) & (~street_mask) & (~vegetation_mask); the
\* variant forgets the street mask
valid_area_without_streets(buildings, streets, vegetation) ==
    { p \in Pixels : p \notin buildings /\ p \notin vegetation }

valid_area_of(buildings, streets, vegetation) ==
    { p \in Pixels : p \notin buildings /\ p \notin streets /\ p \notin vegetation }

\* the four band masks; the variant of the critical band starts at the high
\* band's minimum, the variant of the medium band closes its upper end
critical_priority_from_high(enhanced, valid) ==
    { p \in Pixels : enhanced[p] >= Points(PRIORITY_HIGH_MIN) /\ p \in valid }

critical_priority_of(enhanced, valid) ==
    { p \in Pixels : enhanced[p] >= Points(PRIORITY_CRITICAL_MIN) /\ p \in valid }

high_priority_of(enhanced, valid) ==
    { p \in Pixels : /\ enhanced[p] >= Points(PRIORITY_HIGH_MIN)
                     /\ enhanced[p] < Points(PRIORITY_CRITICAL_MIN)
                     /\ p \in valid }

medium_priority_closed(enhanced, valid) ==
    { p \in Pixels : /\ enhanced[p] >= Points(PRIORITY_MEDIUM_MIN)
                     /\ enhanced[p] <= Points(PRIORITY_HIGH_MIN)
                     /\ p \in valid }

medium_priority_of(enhanced, valid) ==
    { p \in Pixels : /\ enhanced[p] >= Points(PRIORITY_MEDIUM_MIN)
                     /\ enhanced[p] < Points(PRIORITY_HIGH_MIN)
                     /\ p \in valid }

low_priority_of(enhanced, valid) ==
    { p \in Pixels : /\ enhanced[p] > 0
                     /\ enhanced[p] < Points(PRIORITY_MEDIUM_MIN)
                     /\ p \in valid }

calculate(intensity, sidewalks, buildings, streets, vegetation, gdf) ==
    LET sidewalk_score == _calculate_sidewalk_priority(sidewalks)
        building_score == _calculate_building_priority(buildings)
        sun_score == _calculate_sun_priority(intensity)
        amenity == _calculate_amenity_priority(gdf, SCORE_AMENITY)
        amenity_score == amenity.map
        gap_score == ZeroGrid
        valid_area == valid_area_of(buildings, streets, vegetation)
        enhanced_priority ==
            [p \in Pixels |->
                (sidewalk_score[p] + building_score[p] + sun_score[p]
                   + amenity_score[p] + gap_score[p])
                * (IF p \in valid_area THEN 1 ELSE 0)]
    IN  IF amenity.raised THEN [raised |-> TRUE]
        ELSE [ raised |-> FALSE,
               enhanced_priority_score |-> enhanced_priority,
               critical_priority |-> critical_priority_of(enhanced_priority, valid_area),
               high_priority |-> high_priority_of(enhanced_priority, valid_area),
               medium_priority |-> medium_priority_of(enhanced_priority, valid_area),
               low_priority |-> low_priority_of(enhanced_priority, valid_area),
               sidewalk_component |-> sidewalk_score,
               building_component |-> building_score,
               sun_component |-> sun_score,
               amenity_component |-> amenity_score ]

(***************************************************************************)
(* core/visualizer.py: ResultVisualizer.create_summary_statistics          *)
(*                                                                         *)
(* priority_score and area_m2 of a spot are kept in 1/10 (one decimal      *)
(* place); a centroid is kept as the sums of its component's pixel         *)
(* coordinates over the component's area.                                  *)
(***************************************************************************)
\* the place of pixel <<x, y>> in the raster scan, row by row
RasterRank(p) == p[2] * img_width + p[1]

\* the variant that joins pixels along the four sides only
RECURSIVE FloodFill4(_, _, _)
FloodFill4(foreground, grown, frontier) ==
    LET more == { q \in foreground \ grown :
                    \E p \in frontier : Abs(q[1] - p[1]) + Abs(q[2] - p[2]) <= 1 }
    IN  IF more = {} THEN grown
        ELSE FloodFill4(foreground, grown \cup more, more)

\* connectivity=8: the pixels of foreground joined to grown along sides and
\* corners; frontier holds the pixels grown last
RECURSIVE FloodFill(_, _, _)
FloodFill(foreground, grown, frontier) ==
    LET more == { q \in foreground \ grown :
                    \E p \in frontier : Abs(q[1] - p[1]) <= 1 /\ Abs(q[2] - p[2]) <= 1 }
    IN  IF more = {} THEN grown
        ELSE FloodFill(foreground, grown \cup more, more)

\* cv2.connectedComponentsWithStats(critical_uint8, connectivity=8): the
\* sequence of the components, label i at position i, numbered in the order
\* in which the raster scan meets them
RECURSIVE connectedComponentsWithStats(_)
connectedComponentsWithStats(foreground) ==
    IF foreground = {} THEN <<>>
    ELSE LET rank == SetMin({ RasterRank(p) : p \in foreground })
             first == << rank % img_width, rank \div img_width >>
             component == FloodFill(foreground, { first }, { first })
         IN  << component >> \o connectedComponentsWithStats(foreground \ component)

\* the sum of array over the pixels of cluster_mask
RECURSIVE np_sum(_, _)
np_sum(array, cluster_mask) ==
    IF cluster_mask = {} THEN 0
    ELSE LET p == CHOOSE q \in cluster_mask : TRUE
         IN  array[p] + np_sum(array, cluster_mask \ { p })

\* round(n / d) for n >= 0 and d > 0: the nearest whole number, a half going
\* to the even neighbour
PyRound(n, d) ==
    LET q == n \div d
        r == n % d
    IN  IF 2 * r < d THEN q
        ELSE IF 2 * r > d THEN q + 1
        ELSE IF q % 2 = 0 THEN q ELSE q + 1

\* the variant in which a spot goes before the spots of equal score
RECURSIVE sort_reverse_unstable(_)
sort_reverse_unstable(spots) ==
    IF spots = <<>> THEN <<>>
    ELSE LET sorted == sort_reverse_unstable(SubSeq(spots, 1, Len(spots) - 1))
             spot == spots[Len(spots)]
         IN  SelectSeq(sorted, LAMBDA x : x.priority_score > spot.priority_score)
               \o << spot >>
               \o SelectSeq(sorted, LAMBDA x : x.priority_score <= spot.priority_score)

\* critical_spots.sort(key=lambda x: x['priority_score'], reverse=True): a
\* stable sort, each spot placed after the spots of equal score before it
RECURSIVE sort_reverse(_)
sort_reverse(spots) ==
    IF spots = <<>> THEN <<>>
    ELSE LET sorted == sort_reverse(SubSeq(spots, 1, Len(spots) - 1))
             spot == spots[Len(spots)]
         IN  SelectSeq(sorted, LAMBDA x : x.priority_score >= spot.priority_score)
               \o << spot >>
               \o SelectSeq(sorted, LAMBDA x : x.priority_score < spot.priority_score)

_extract_critical_spots(critical_priority, priority_score, geo_bounds, height, width) ==
    IF critical_priority = {} THEN <<>>
    ELSE LET components == connectedComponentsWithStats(critical_priority)
             kept == SelectSeq([i \in 1 .. Len(components) |-> i],
                               LAMBDA i : ~ (Cardinality(components[i]) < 20))
             spot(i) ==
                 LET cluster_mask == components[i]
                     area_pixels == Cardinality(cluster_mask)
                     \* centroid_x = x_sum / area_pixels, centroid_y = y_sum / area_pixels
                     x_sum == np_sum([p \in cluster_mask |-> p[1]], cluster_mask)
                     y_sum == np_sum([p \in cluster_mask |-> p[2]], cluster_mask)
                 IN  [ spot_id |-> i,
                       coordinates |->
                           pixel_to_latlon(x_sum, y_sum, geo_bounds[2], geo_bounds[4],
                                           geo_bounds[1], geo_bounds[3],
                                           height * area_pixels, width * area_pixels),
                       \* round(avg_score, 1) in tenths, the scores being in 1/1000
                       priority_score |->
                           PyRound(np_sum(priority_score, cluster_mask),
                                   area_pixels * 100),
                       area_m2 |-> PyRound(area_pixels * 36, 10),
                       area_pixels |-> area_pixels ]
         IN  sort_reverse([k \in 1 .. Len(kept) |-> spot(kept[k])])

\* ---- inputs of the scoring specifications ----
ImgWidth == 56          \* image width of the calculate specification
ImgHeight == 3          \* image height of the calculate specification
AmenityImgWidth == 340  \* image width of the amenity specification
AmenityImgHeight == 2   \* image height of the amenity specification

Column(x) == { <<x, y>> : y \in 0 .. img_height - 1 }

\* GeoBounds with two angular units per pixel on each axis
ImageBounds(size) == <<0, 0, 2 * size[1], 2 * size[2]>>

\* an amenity row whose Point projects to pixel <<x, y>>
AmenityAt(x, y) ==
    [ geom_type |-> "Point",
      x |-> 2 * x + (IF x >= 0 THEN 1 ELSE 0),
      y |-> 2 * img_height - (2 * y + (IF y >= 0 THEN 1 ELSE 0)) ]

\* a row whose geometry is not a Point
AmenityPolygon == [ geom_type |-> "Polygon", x |-> img_width, y |-> img_height ]

CentrePixel == << img_width \div 2, img_height \div 2 >>

SidewalkMasks == { {}, Column(0), { <<2, 0>> }, Column(img_width \div 2) }
BuildingMasks == { {}, { <<img_width - 1, img_height - 1>> },
                   { <<12, 0>>, <<13, 0>>, <<12, 1>>, <<13, 1>> } }
StreetMasks == { {}, Column(0) \cup Column(1) }
VegetationMasks == { {}, { p \in Pixels : p[1] % 7 = 3 /\ p[2] > 0 } }

\* shadow intensities on both sides of 0.3 and 0.6, and at them
ShadowLevels == <<0, 29, 30, 59, 60, 100>>
ShadowGrids == { [p \in Pixels |-> 0],
                 [p \in Pixels |-> ShadowLevels[((p[1] + 2 * p[2]) % 6) + 1]] }

AmenityLists ==
    { <<>>,
      << AmenityPolygon >>,
      << AmenityAt(CentrePixel[1], CentrePixel[2]) >>,
      << AmenityAt(2, 0), AmenityAt(2, 0), AmenityAt(3, 1) >>,
      << AmenityAt(img_width + radius_px, 0) >>,
      << AmenityAt(5, 1), AmenityAt(img_width + radius_px + 5, 1) >> }

Init ==
    /\ pc = "calc_start"
    /\ image_size = <<ImgWidth, ImgHeight>>
    /\ bounds = ImageBounds(image_size)
    /\ lat = 0 /\ lon = 0 /\ pixel = NoValue /\ latlon = NoValue
    /\ shadow_intensity \in ShadowGrids
    /\ sidewalk_mask \in SidewalkMasks
    /\ building_mask \in BuildingMasks
    /\ street_mask \in StreetMasks
    /\ vegetation_mask \in VegetationMasks
    /\ amenities_gdf \in AmenityLists
    /\ result = NoValue
    /\ StagesIdle

Calculate ==
    /\ pc = "calc_start"
    /\ result' = calculate(shadow_intensity, sidewalk_mask, building_mask,
                           street_mask, vegetation_mask, amenities_gdf)
    /\ pc' = IF result'.raised THEN "calc_raised" ELSE "calc_done"
    /\ UNCHANGED <<geo_vars, shadow_intensity, sidewalk_mask, building_mask,
                   street_mask, vegetation_mask, amenities_gdf, stage_vars>>

\* create_summary_statistics on the output of calculate
CreateSummaryStatistics ==
    /\ pc = "calc_done"
    /\ critical_spots' = _extract_critical_spots(result.critical_priority,
                                                 result.enhanced_priority_score,
                                                 bounds, img_height, img_width)
    /\ pc' = "summary_done"
    /\ UNCHANGED <<geo_vars, calc_vars, filter_vars, mask_vars, store_vars,
                   detect_vars, download_vars>>

Next == Calculate \/ CreateSummaryStatistics

Spec == Init /\ [][Next]_vars

\* ---- create_summary_statistics on outputs with critical clusters ----
SpotImgWidth == 11      \* image width of the summary specification
SpotImgHeight == 5      \* image height of the summary specification

\* the first n pixels, counted row by row, of the five columns from x0
Patch(x0, n) ==
    { p \in Pixels : p[1] >= x0 /\ p[1] < x0 + 5 /\ p[2] * 5 + (p[1] - x0) < n }

\* a pixel that touches both patches, the left one at a corner only
Bridge == << 5, 4 >>

LeftAreas == { 19, 20, 21 }
RightAreas == { 0, 5, 20 }

\* scores of the critical band, in 1/1000 point
LeftScores == { 80000, 85010, 85040, 89000 }
RightScores == { 85010, 85040, 85060 }

\* outputs of calculate: the critical pixels are a left and a right patch,
\* with or without the bridge; a patch has one score, its first pixel 0.3
\* more; every other pixel is below the critical band
SpotResults ==
    { LET left == Patch(0, left_area)
          right == Patch(6, right_area)
          critical == left \cup right \cup (IF bridged THEN { Bridge } ELSE {})
      IN  [ raised |-> FALSE,
            critical_priority |-> critical,
            enhanced_priority_score |->
                [p \in Pixels |->
                    IF p \in left THEN left_score + (IF p = <<0, 0>> THEN 300 ELSE 0)
                    ELSE IF p \in right THEN right_score + (IF p = <<6, 0>> THEN 300 ELSE 0)
                    ELSE IF p \in critical THEN Points(PRIORITY_CRITICAL_MIN)
                    ELSE Points(PRIORITY_MEDIUM_MIN)] ] :
        left_area \in LeftAreas, right_area \in RightAreas, bridged \in BOOLEAN,
        left_score \in LeftScores, right_score \in RightScores }

SpotsInit ==
    /\ pc = "calc_done"
    /\ image_size = <<SpotImgWidth, SpotImgHeight>>
    /\ bounds = ImageBounds(image_size)
    /\ lat = 0 /\ lon = 0 /\ pixel = NoValue /\ latlon = NoValue
    /\ shadow_intensity = NoValue
    /\ sidewalk_mask = {}
    /\ building_mask = {}
    /\ street_mask = {}
    /\ vegetation_mask = {}
    /\ amenities_gdf = <<>>
    /\ result \in SpotResults
    /\ StagesIdle

SpotsNext == CreateSummaryStatistics

SpecSpots == SpotsInit /\ [][SpotsNext]_vars

\* ---- the amenity component on its own, on an image wider than the kernel ----
MaxAmenityRows == 2     \* longest amenity collection of the amenity specification

\* amenity rows whose Point projects inside the image
InsideRows ==
    { AmenityAt(CentrePixel[1], CentrePixel[2]),
      AmenityAt(CentrePixel[1] + 40, 0),
      AmenityAt(0, img_height - 1) }

\* rows on the image's border and outside it at several distances, and a row
\* that is not a Point
OtherRows ==
    { AmenityAt(img_width, 1),
      AmenityAt(img_width + radius_px, 1),
      AmenityAt(img_width + radius_px + 5, 1),
      AmenityAt(0 - (radius_px + 1), 1),
      AmenityAt(0 - (radius_px + 3), 1),
      AmenityAt(img_width + 3 * radius_px, 1),
      AmenityAt(0 - (radius_px + 1) - img_width, 1),
      AmenityAt(CentrePixel[1], img_height + radius_px - 1),
      AmenityAt(img_width + 120, img_height + 120),
      AmenityPolygon }

RECURSIVE SeqsUpTo(_, _)
SeqsUpTo(S, n) ==
    IF n = 0 THEN { <<>> }
    ELSE LET shorter == SeqsUpTo(S, n - 1)
         IN  shorter \cup { Append(q, e) : q \in shorter, e \in S }

\* collections of at most MaxAmenityRows rows, at most one of them not inside
AmenityCollections ==
    { gdf \in SeqsUpTo(InsideRows \cup OtherRows, MaxAmenityRows) :
        Cardinality({ i \in DOMAIN gdf : gdf[i] \in OtherRows }) <= 1 }

AmenityInit ==
    /\ pc = "amenity_start"
    /\ image_size = <<AmenityImgWidth, AmenityImgHeight>>
    /\ bounds = ImageBounds(image_size)
    /\ lat = 0 /\ lon = 0 /\ pixel = NoValue /\ latlon = NoValue
    /\ shadow_intensity = NoValue
    /\ sidewalk_mask = {}
    /\ building_mask = {}
    /\ street_mask = {}
    /\ vegetation_mask = {}
    /\ amenities_gdf \in AmenityCollections
    /\ result = NoValue
    /\ StagesIdle

CalculateAmenity ==
    /\ pc = "amenity_start"
    /\ result' = _calculate_amenity_priority(amenities_gdf, SCORE_AMENITY)
    /\ pc' = IF result'.raised THEN "amenity_raised" ELSE "amenity_done"
    /\ UNCHANGED <<geo_vars, shadow_intensity, sidewalk_mask, building_mask,
                   street_mask, vegetation_mask, amenities_gdf, stage_vars>>

AmenityNext == CalculateAmenity

SpecAmenity == AmenityInit /\ [][AmenityNext]_vars

(***************************************************************************)
(* Properties of PriorityCalculator.calculate                              *)
(***************************************************************************)
Returned == pc = "calc_done"

IsValid(p) == p \notin building_mask /\ p \notin street_mask /\ p \notin vegetation_mask

Bands == << result.critical_priority, result.high_priority,
            result.medium_priority, result.low_priority >>

\* C1: in every output of calculate the four band masks (critical, high,
\* medium, low) are pairwise disjoint, and their union is exactly the set of
\* pixels that are valid (not building, not street, not vegetation) and have
\* total score > 0.
C1_BandsPartition ==
    Returned =>
        /\ \A i, j \in 1 .. 4 : i # j => Bands[i] \cap Bands[j] = {}
        /\ UNION { Bands[i] : i \in 1 .. 4 }
             = { p \in Pixels : IsValid(p) /\ result.enhanced_priority_score[p] > 0 }

\* an output in which every band is inhabited and some pixel is not valid
C1_Witness ==
    /\ Returned
    /\ \A i \in 1 .. 4 : Bands[i] # {}
    /\ \E p \in Pixels : ~IsValid(p)

\* C2: for every combination of input masks, shadow-intensity grid and amenity
\* points, every pixel of enhanced_priority_score returned by calculate lies
\* in [0, 100].
C2_ScoreRange ==
    Returned =>
        \A p \in Pixels : /\ 0 <= result.enhanced_priority_score[p]
                          /\ result.enhanced_priority_score[p] <= Points(100)

\* an output with a pixel at the top of every component (35 + 25 + 20 + 10)
\* computed from several overlapping amenity kernels
C2_Witness ==
    /\ Returned
    /\ Len(amenities_gdf) > 1
    /\ \E p \in Pixels :
          result.enhanced_priority_score[p]
            = Points(SCORE_SIDEWALK + SCORE_BUILDING + SCORE_SUN + SCORE_AMENITY)

\* C3: in the output of calculate every pixel in the building, street or
\* vegetation mask has total score exactly 0 and belongs to no band; every
\* other pixel has total score equal to the sum of its sidewalk, building, sun
\* and amenity components.
ComponentSum(p) ==
    result.sidewalk_component[p] + result.building_component[p]
      + result.sun_component[p] + result.amenity_component[p]

C3_ValidityMask ==
    Returned =>
        \A p \in Pixels :
            IF IsValid(p)
            THEN result.enhanced_priority_score[p] = ComponentSum(p)
            ELSE /\ result.enhanced_priority_score[p] = 0
                 /\ \A i \in 1 .. 4 : p \notin Bands[i]

\* an output with a pixel of each excluded kind whose components do not sum
\* to 0, and a valid pixel
C3_Witness ==
    /\ Returned
    /\ \E p \in building_mask : ComponentSum(p) > 0
    /\ \E p \in street_mask \ (building_mask \cup vegetation_mask) : ComponentSum(p) > 0
    /\ \E p \in vegetation_mask \ (building_mask \cup street_mask) : ComponentSum(p) > 0
    /\ \E p \in Pixels : IsValid(p) /\ result.enhanced_priority_score[p] > 0

\* C4: for a non-empty sidewalk mask the sidewalk component of each pixel is
\* determined by its Euclidean pixel distance d to the nearest True sidewalk
\* pixel: 35 if d <= 20, 20 if 20 < d <= 50, 5 if d > 50 (d = 20 and d = 50
\* fall in the higher-scoring tier).
C4_SidewalkTiers ==
    (Returned /\ sidewalk_mask # {}) =>
        \A p \in Pixels :
            LET within(t) == \E q \in sidewalk_mask : DistSq(p, q) <= t * t
            IN  result.sidewalk_component[p] =
                    IF within(20) THEN Points(35)
                    ELSE IF within(50) THEN Points(20)
                    ELSE Points(5)

\* an output with pixels at distance exactly 20 and exactly 50 from the
\* nearest sidewalk pixel, just beyond 20 (sqrt(401)), and beyond 50
C4_Witness ==
    /\ Returned
    /\ sidewalk_mask # {}
    /\ \A d2 \in { 20 * 20, 20 * 20 + 1, 50 * 50, 50 * 50 + 1 } :
          \E p \in Pixels :
              /\ \E q \in sidewalk_mask : DistSq(p, q) = d2
              /\ \A q \in sidewalk_mask : DistSq(p, q) >= d2

\* C5: for a non-empty building mask the building component of each pixel is
\* determined by m = 0.6 * (pixel distance to the nearest building pixel):
\* 25 if 5 <= m <= 15, 15 if 15 < m <= 30, 10 if 0 < m < 5, 5 if m > 30, and
\* 0 if m = 0 (inside a building); the tiers are mutually exclusive and cover
\* every m > 0.
C5_BuildingTiers ==
    (Returned /\ building_mask # {}) =>
        \A p \in Pixels :
            \* 25 * m^2 = 9 * d^2, against 25 * 5^2, 25 * 15^2, 25 * 30^2
            LET mm == 9 * SetMin({ DistSq(p, q) : q \in building_mask })
                score == result.building_component[p]
            IN  /\ (mm = 0) => score = 0
                /\ (0 < mm /\ mm < 625) => score = Points(10)
                /\ (625 <= mm /\ mm <= 5625) => score = Points(25)
                /\ (5625 < mm /\ mm <= 22500) => score = Points(15)
                /\ (mm > 22500) => score = Points(5)
                /\ (mm > 0) => score \in { Points(10), Points(25), Points(15), Points(5) }

\* an output with a pixel inside a building, pixels at exactly 15 m (25 px)
\* and 30 m (50 px), and pixels on both sides of 5 m (8 px and 9 px)
C5_Witness ==
    /\ Returned
    /\ building_mask # {}
    /\ \A d2 \in { 0, 8 * 8, 9 * 9, 25 * 25, 25 * 25 + 1, 50 * 50, 50 * 50 + 1 } :
          \E p \in Pixels :
              /\ \E q \in building_mask : DistSq(p, q) = d2
              /\ \A q \in building_mask : DistSq(p, q) >= d2

\* C6: the sun-exposure component gives every pixel exactly one of three
\* values from its shadow intensity s: 20 if s < 0.3, 12 if 0.3 <= s < 0.6,
\* 5 if s >= 0.6; no pixel with s in [0, 1] is left at 0.
C6_SunTiers ==
    Returned =>
        \A p \in Pixels :
            LET s == shadow_intensity[p]
                score == result.sun_component[p]
            IN  /\ (s < 30) => score = Points(20)
                /\ (30 <= s /\ s < 60) => score = Points(12)
                /\ (s >= 60) => score = Points(5)
                /\ (0 <= s /\ s <= 100) => score # 0

\* an output over a grid holding s = 0, 0.29, 0.3, 0.59, 0.6 and 1
C6_Witness ==
    /\ Returned
    /\ { 0, 29, 30, 59, 60, 100 } \subseteq { shadow_intensity[p] : p \in Pixels }

(***************************************************************************)
(* Properties of PriorityCalculator._calculate_amenity_priority            *)
(***************************************************************************)
AmenityReturned == pc = "amenity_done"

\* the projected Points of the collection
ProjectedPoints == AmenityPixels(amenities_gdf)

\* C7: with exactly one amenity point, projected to the image centre, the
\* amenity density field has its maximum exactly at that pixel, is non-increasing
\* in pixel distance from it, and is exactly zero at every pixel farther than
\* the kernel radius from it.
C7_SingleAmenityField ==
    (AmenityReturned /\ ProjectedPoints = << CentrePixel >>) =>
        LET field == result.map
            c == CentrePixel
        IN  /\ \A p \in Pixels : p # c => field[p] < field[c]
            /\ \A p, q \in Pixels :
                   DistSq(p, c) <= DistSq(q, c) => field[p] >= field[q]
            /\ \A p \in Pixels :
                   DistSq(p, c) > radius_px * radius_px => field[p] = 0

\* the field of a single centre amenity on an image that has pixels beyond the
\* kernel radius, pixels on the radius with a positive value, and pixels of
\* the kernel's bounding square that lie outside its circle
C7_Witness ==
    /\ AmenityReturned
    /\ ProjectedPoints = << CentrePixel >>
    /\ result.map[CentrePixel] = Points(SCORE_AMENITY)
    /\ \E p \in Pixels : DistSq(p, CentrePixel) = radius_px * radius_px /\ result.map[p] > 0
    /\ \E p \in Pixels : /\ Abs(p[1] - CentrePixel[1]) <= radius_px
                         /\ DistSq(p, CentrePixel) > radius_px * radius_px
    /\ \E p \in Pixels : Abs(p[1] - CentrePixel[1]) > radius_px

RECURSIVE KernelSum(_, _)
KernelSum(points, p) ==
    IF points = <<>> THEN 0
    ELSE (IF DistSq(p, Head(points)) <= radius_px * radius_px
          THEN GaussianFalloff(DistSq(p, Head(points))) ELSE 0)
         + KernelSum(Tail(points), p)

C8_NoKernelReachesWitness ==
    /\ AmenityReturned
    /\ ProjectedPoints # <<>>
    /\ \A p \in Pixels : result.map[p] = 0

(***************************************************************************)
(* core/transformer.py: GeometryTransformer.filter_streets_by_type         *)
(*                                                                         *)
(* A row's highway entry is [kind, str, list]: kind "absent" when the row  *)
(* has no highway entry, "nan" when the entry holds no value, "str" for    *)
(* one tag value and "list" for a list of tag values.                      *)
(***************************************************************************)
PEDESTRIAN_PRIORITY_TYPES == { "footway", "pedestrian", "living_street", "path", "steps" }
LOW_TRAFFIC_TYPES == { "residential", "tertiary", "unclassified", "service" }
MEDIUM_TRAFFIC_TYPES == { "secondary", "secondary_link" }
HIGH_TRAFFIC_TYPES == { "primary", "primary_link", "trunk", "trunk_link",
                        "motorway", "motorway_link" }

None == [kind |-> "none", str |-> "", list |-> <<>>]
Str(s) == [kind |-> "str", str |-> s, list |-> <<>>]
List(l) == [kind |-> "list", str |-> "", list |-> l]
Absent == [kind |-> "absent", str |-> "", list |-> <<>>]
NaN == [kind |-> "nan", str |-> "", list |-> <<>>]

\* Python's "value in LIST" for a list of strings
PyIn(value, TYPES) == value.kind = "str" /\ value.str \in TYPES

\* the variant that takes the last element of a list of tag values
_get_highway_type_last(row) ==
    LET highway_type == IF row.highway.kind = "absent" THEN None ELSE row.highway
    IN  IF highway_type.kind = "list"
        THEN IF Len(highway_type.list) > 0
             THEN Str(highway_type.list[Len(highway_type.list)])
             ELSE None
        ELSE highway_type

_get_highway_type(row) ==
    LET highway_type == IF row.highway.kind = "absent" THEN None ELSE row.highway
    IN  IF highway_type.kind = "list"
        THEN IF Len(highway_type.list) > 0 THEN Str(highway_type.list[1]) ELSE None
        ELSE highway_type

\* the if/elif chain of the loop: the list the row is appended to
street_category(highway_type) ==
    IF PyIn(highway_type, PEDESTRIAN_PRIORITY_TYPES) THEN "pedestrian"
    ELSE IF PyIn(highway_type, LOW_TRAFFIC_TYPES) THEN "low_traffic"
    ELSE IF PyIn(highway_type, MEDIUM_TRAFFIC_TYPES) THEN "medium_traffic"
    ELSE IF PyIn(highway_type, HIGH_TRAFFIC_TYPES) THEN "high_traffic"
    ELSE "low_traffic"

\* a GeoDataFrame is the sequence of its rows
_to_gdf(rows_list) == rows_list

_empty_street_dict ==
    [ pedestrian |-> <<>>, low_traffic |-> <<>>,
      medium_traffic |-> <<>>, high_traffic |-> <<>> ]

\* the rows of gdf appended to the list of one category, in iteration order
RowsAppendedTo(category, gdf) ==
    SelectSeq(gdf, LAMBDA row : street_category(_get_highway_type(row)) = category)

filter_streets_by_type(gdf) ==
    IF Len(gdf) = 0 THEN _empty_street_dict
    ELSE [ pedestrian |-> _to_gdf(RowsAppendedTo("pedestrian", gdf)),
           low_traffic |-> _to_gdf(RowsAppendedTo("low_traffic", gdf)),
           medium_traffic |-> _to_gdf(RowsAppendedTo("medium_traffic", gdf)),
           high_traffic |-> _to_gdf(RowsAppendedTo("high_traffic", gdf)) ]

\* ---- inputs of the street filter specification ----
MaxStreets == 2         \* longest street collection

\* every tag value of the four tiers, one of no tier, and the other kinds
HighwayEntries ==
    { Str(s) : s \in PEDESTRIAN_PRIORITY_TYPES \cup LOW_TRAFFIC_TYPES
                       \cup MEDIUM_TRAFFIC_TYPES \cup HIGH_TRAFFIC_TYPES
                       \cup { "cycleway" } }
    \cup { Absent, NaN, List(<<>>),
           List(<<"primary", "footway">>), List(<<"footway", "primary">>),
           List(<<"cycleway", "secondary">>), List(<<"secondary_link">>) }

StreetCollections ==
    UNION { { [i \in 1 .. n |-> [highway |-> tags[i], idx |-> i]] :
                tags \in [1 .. n -> HighwayEntries] } : n \in 0 .. MaxStreets }

FilterInit ==
    /\ pc = "filter_start"
    /\ streets_gdf \in StreetCollections
    /\ street_dict = NoValue
    /\ GeoIdle /\ CalcIdle /\ MaskIdle /\ StoreIdle /\ DetectIdle /\ SummaryIdle /\ DownloadIdle

FilterStreetsByType ==
    /\ pc = "filter_start"
    /\ street_dict' = filter_streets_by_type(streets_gdf)
    /\ pc' = "filter_done"
    /\ UNCHANGED <<summary_vars, download_vars,
                   geo_vars, calc_vars, streets_gdf, mask_vars, store_vars, detect_vars>>

FilterNext == FilterStreetsByType

SpecFilter == FilterInit /\ [][FilterNext]_vars

\* ---- C11 ----
Tiers == { "pedestrian", "low_traffic", "medium_traffic", "high_traffic" }

TierTypes(tier) ==
    CASE tier = "pedestrian" -> PEDESTRIAN_PRIORITY_TYPES
      [] tier = "low_traffic" -> LOW_TRAFFIC_TYPES
      [] tier = "medium_traffic" -> MEDIUM_TRAFFIC_TYPES
      [] tier = "high_traffic" -> HIGH_TRAFFIC_TYPES

\* the highway value of a row as the claim reads it: the tag value, the first
\* element of a list of tag values, or no value at all ("")
HighwayValue(row) ==
    IF row.highway.kind = "str" THEN row.highway.str
    ELSE IF row.highway.kind = "list" /\ Len(row.highway.list) > 0
         THEN row.highway.list[1]
    ELSE ""

InTier(row, tier) == \E k \in 1 .. Len(street_dict[tier]) : street_dict[tier][k] = row

\* C11: filter_streets_by_type places every input street in exactly one of
\* the four tiers: the tier whose tag set contains its highway value (the
\* first element when the tag is a list), or low_traffic when the value is in
\* none of the four sets (missing tag and empty list included); the four tag
\* sets are pairwise disjoint and the four output counts sum to the input
\* count.
C11_FourWayPartition ==
    pc = "filter_done" =>
        /\ \A i \in 1 .. Len(streets_gdf) :
              LET row == streets_gdf[i]
                  home == IF \E t \in Tiers : HighwayValue(row) \in TierTypes(t)
                          THEN CHOOSE t \in Tiers : HighwayValue(row) \in TierTypes(t)
                          ELSE "low_traffic"
              IN  \A t \in Tiers : InTier(row, t) <=> t = home
        /\ \A t, u \in Tiers : t # u => TierTypes(t) \cap TierTypes(u) = {}
        /\ Len(street_dict.pedestrian) + Len(street_dict.low_traffic)
             + Len(street_dict.medium_traffic) + Len(street_dict.high_traffic)
           = Len(streets_gdf)

\* a list whose first value decides against its second, next to a street
\* that has no usable tag value
C11_Witness ==
    /\ pc = "filter_done"
    /\ \E i, j \in 1 .. Len(streets_gdf) :
          /\ streets_gdf[i].highway = List(<<"primary", "footway">>)
          /\ streets_gdf[j].highway \in { Absent, NaN, List(<<>>), Str("cycleway") }
          /\ InTier(streets_gdf[i], "high_traffic")
          /\ InTier(streets_gdf[j], "low_traffic")

(***************************************************************************)
(* core/mask_generator.py                                                  *)
(*                                                                         *)
(* A geometry is [geom_type, parts]: parts is the sequence of its          *)
(* coordinate sequences of <<lon, lat>> (the exterior ring of a Polygon,   *)
(* one ring per member of a MultiPolygon, the vertices of a LineString).   *)
(* Coordinates are whole metres on a local grid, so that the projection    *)
(* to UTM and back (to_crs) leaves them as they are.  The geometries of    *)
(* the model are rectangles and segments parallel to the axes.             *)
(*                                                                         *)
(* A numpy array of shape (rows, cols) is a function on the index pairs    *)
(* <<row, col>>; a PIL image is [size |-> <<width, height>>, white |-> the *)
(* set of its pixels <<x, y>> that are not 0].                             *)
(***************************************************************************)
STREET_BUFFER_METERS == 10

Index(shape) == (0 .. shape[1] - 1) \X (0 .. shape[2] - 1)

np_ones(shape) == [i \in Index(shape) |-> TRUE]
np_zeros(shape) == [i \in Index(shape) |-> FALSE]

\* a | b, element by element
np_or(a, b) == [i \in DOMAIN a |-> a[i] \/ b[i]]

Image_new(size) == [size |-> size, white |-> {}]

\* np.array(img) > 0 with the two axes in the order of img.size
np_array_transposed(img) ==
    [i \in Index(<<img.size[1], img.size[2]>>) |-> <<i[1], i[2]>> \in img.white]

\* np.array(img) > 0: rows are the image's y, columns its x
np_array(img) ==
    [i \in Index(<<img.size[2], img.size[1]>>) |-> <<i[2], i[1]>> \in img.white]

\* the values of a coordinate (1: x, 2: y) over a coordinate sequence
Coordinate(coords, k) == { coords[n][k] : n \in 1 .. Len(coords) }

\* ImageDraw.polygon(pixel_coords, fill=255) for a rectangle parallel to the
\* axes: its outline and its interior, as far as they lie in the image
draw_polygon(img, pixel_coords) ==
    LET x0 == SetMin(Coordinate(pixel_coords, 1))
        x1 == SetMax(Coordinate(pixel_coords, 1))
        y0 == SetMin(Coordinate(pixel_coords, 2))
        y1 == SetMax(Coordinate(pixel_coords, 2))
    IN  [ img EXCEPT !.white = @ \cup
            ( (Max(x0, 0) .. Min(x1, img.size[1] - 1))
              \X (Max(y0, 0) .. Min(y1, img.size[2] - 1)) ) ]

Polygon(ring) == [geom_type |-> "Polygon", parts |-> << ring >>]

\* the closed exterior ring of the rectangle [x0, x1] x [y0, y1]
Box(x0, y0, x1, y1) ==
    << <<x0, y0>>, <<x1, y0>>, <<x1, y1>>, <<x0, y1>>, <<x0, y0>> >>

AllCoords(geom) ==
    UNION { { geom.parts[k][n] : n \in 1 .. Len(geom.parts[k]) } :
              k \in 1 .. Len(geom.parts) }

\* geom.buffer(distance): a Polygon; its round joins and caps are squared
\* off, which makes it the envelope of geom widened by distance on each side.
\* The buffer of an empty geometry is an empty Polygon.
buffer(geom, distance) ==
    LET xs == { c[1] : c \in AllCoords(geom) }
        ys == { c[2] : c \in AllCoords(geom) }
    IN  IF AllCoords(geom) = {} THEN Polygon(<<>>)
        ELSE Polygon(Box(SetMin(xs) - distance, SetMin(ys) - distance,
                         SetMax(xs) + distance, SetMax(ys) + distance))

\* geom.buffer(0.00005) of create_mask: 0.00005 degrees are 5.55 m, in the
\* whole metres of the model 5
LINESTRING_BUFFER == 5

\* the list "polygons" of one row; a row of another type is passed over
polygons_of(geom) ==
    IF geom.geom_type = "MultiPolygon"
    THEN [k \in 1 .. Len(geom.parts) |-> Polygon(geom.parts[k])]
    ELSE IF geom.geom_type = "Polygon" THEN << geom >>
    ELSE IF geom.geom_type = "LineString" THEN << buffer(geom, LINESTRING_BUFFER) >>
    ELSE << >>

\* the exterior coordinates of poly, projected by latlon_to_pixel
pixel_coords_of(poly, size, bnds) ==
    [n \in 1 .. Len(poly.parts[1]) |->
        latlon_to_pixel(poly.parts[1][n][2], poly.parts[1][n][1],
                        bnds[2], bnds[4], bnds[1], bnds[3], size[2], size[1])]

\* "for poly in polygons": from the k-th polygon on; drawn is [mask, count]
RECURSIVE draw_polygons(_, _, _, _, _)
draw_polygons(polygons, k, drawn, size, bnds) ==
    IF k > Len(polygons) THEN drawn
    ELSE LET poly == polygons[k]
             pixel_coords == pixel_coords_of(poly, size, bnds)
         IN  IF poly.geom_type # "Polygon"
             THEN draw_polygons(polygons, k + 1, drawn, size, bnds)
             ELSE IF Len(pixel_coords) >= 3
                  THEN draw_polygons(polygons, k + 1,
                           [ mask |-> draw_polygon(drawn.mask, pixel_coords),
                             count |-> drawn.count + 1 ], size, bnds)
                  ELSE draw_polygons(polygons, k + 1, drawn, size, bnds)

\* "for idx, row in geometries_gdf.iterrows()": from the i-th row on
RECURSIVE draw_rows(_, _, _, _, _)
draw_rows(gdf, i, drawn, size, bnds) ==
    IF i > Len(gdf) THEN drawn
    ELSE draw_rows(gdf, i + 1,
                   draw_polygons(polygons_of(gdf[i]), 1, drawn, size, bnds),
                   size, bnds)

\* size is satellite_img.size, <<img_width, img_height>>; returns (mask, count)
create_mask(gdf, size, bnds) ==
    IF Len(gdf) = 0
    THEN [ mask |-> np_zeros(<<size[2], size[1]>>), count |-> 0 ]
    ELSE LET drawn == draw_rows(gdf, 1, [mask |-> Image_new(size), count |-> 0],
                                size, bnds)
         IN  [ mask |-> np_array(drawn.mask), count |-> drawn.count ]

\* GeoDataFrame.to_crs: the coordinates of the model are metres already
to_crs(gdf) == gdf

\* GeoDataFrame.buffer(buffer_m): every row's geometry replaced by its buffer
buffer_rows(gdf, buffer_m) == [i \in 1 .. Len(gdf) |-> buffer(gdf[i], buffer_m)]

\* the variant that buffers by STREET_BUFFER_METERS whatever buffer_m is
create_street_mask_default_buffer(gdf, size, bnds, buffer_m) ==
    IF Len(gdf) = 0
    THEN [ mask |-> np_zeros(<<size[2], size[1]>>), count |-> 0 ]
    ELSE create_mask(to_crs(buffer_rows(to_crs(gdf), STREET_BUFFER_METERS)), size, bnds)

create_street_mask(gdf, size, bnds, buffer_m) ==
    IF Len(gdf) = 0
    THEN [ mask |-> np_zeros(<<size[2], size[1]>>), count |-> 0 ]
    ELSE create_mask(to_crs(buffer_rows(to_crs(gdf), buffer_m)), size, bnds)

SIDEWALK_BUFFER_M == 5

\* the variant that buffers the sidewalk streets three times as wide
create_sidewalk_mask_wide(pedestrian_streets, low_traffic_streets, size, bnds, buffer_m) ==
    create_mask(to_crs(buffer_rows(to_crs(pedestrian_streets \o low_traffic_streets),
                                   3 * buffer_m)),
                size, bnds).mask

create_sidewalk_mask(pedestrian_streets, low_traffic_streets, size, bnds, buffer_m) ==
    LET sidewalk_streets ==
            IF Len(pedestrian_streets) > 0 \/ Len(low_traffic_streets) > 0
            THEN pedestrian_streets \o low_traffic_streets
            ELSE << >>
    IN  IF Len(sidewalk_streets) = 0
        THEN np_zeros(<<size[2], size[1]>>)
        ELSE create_mask(to_crs(buffer_rows(to_crs(sidewalk_streets), buffer_m)),
                         size, bnds).mask

HIGH_TRAFFIC_BUFFER_M == 25
MEDIUM_TRAFFIC_BUFFER_M == 15
LOW_TRAFFIC_BUFFER_M == 10
PEDESTRIAN_BUFFER_M == 5

\* "if len(streets) > 0: comprehensive_mask = comprehensive_mask | tier mask"
or_tier_mask(comprehensive_mask, streets, size, bnds, buffer_m) ==
    IF Len(streets) > 0
    THEN np_or(comprehensive_mask, create_street_mask(streets, size, bnds, buffer_m).mask)
    ELSE comprehensive_mask

create_comprehensive_street_mask(pedestrian_streets, low_traffic_streets, medium_traffic_streets, high_traffic_streets, size, bnds) ==
    LET mask0 == np_zeros(<<size[2], size[1]>>)
        mask1 == or_tier_mask(mask0, high_traffic_streets, size, bnds,
                              HIGH_TRAFFIC_BUFFER_M)
        mask2 == or_tier_mask(mask1, medium_traffic_streets, size, bnds,
                              MEDIUM_TRAFFIC_BUFFER_M)
        mask3 == or_tier_mask(mask2, low_traffic_streets, size, bnds,
                              LOW_TRAFFIC_BUFFER_M)
        mask4 == or_tier_mask(mask3, pedestrian_streets, size, bnds,
                              PEDESTRIAN_BUFFER_M)
    IN  mask4

\* ---- inputs of the mask specification ----
MaskImgLong == 12       \* the longer side of the image, in pixels
MaskImgShort == 3       \* the shorter side of the image, in pixels

MaskSizes == { <<MaskImgLong, MaskImgShort>>, <<MaskImgShort, MaskImgLong>> }

\* GeoBounds with five metres per pixel on each axis
MaskBounds(size) == <<0, 0, 5 * size[1], 5 * size[2]>>

LineString(coords) == [geom_type |-> "LineString", parts |-> << coords >>]

\* a street across the image's longer axis at t metres along it, over the
\* metres a .. b of the shorter axis; and the rectangle over t .. u
Across(t, a, b) ==
    IF img_width >= img_height THEN LineString(<< <<t, a>>, <<t, b>> >>)
    ELSE LineString(<< <<a, t>>, <<b, t>> >>)
Block(t, u, a, b) ==
    IF img_width >= img_height THEN Box(t, a, u, b) ELSE Box(a, t, b, u)

Building == Polygon(Block(21, 29, 6, 14))
TwoPartBuilding ==
    [ geom_type |-> "MultiPolygon",
      parts |-> << Block(1, 9, 1, 4), Block(41, 49, 11, 14) >> ]
EmptyPolygon == Polygon(<< >>)
Tree == [ geom_type |-> "Point", parts |-> << << <<12, 7>> >> >> ]

GeometryCollections ==
    { << >>, << Building >>, << TwoPartBuilding >>, << Tree >>, << EmptyPolygon >>,
      << Across(32, 6, 9) >>, << Building, Tree, TwoPartBuilding, EmptyPolygon >> }

TierCollections ==
    [ pedestrian : { << >>, << Across(7, 11, 14), Across(52, 1, 4) >> },
      low_traffic : { << >>, << Across(22, 1, 14) >>, << LineString(<< >>) >> },
      medium_traffic : { << >>, << Across(37, 1, 4) >> },
      high_traffic : { << >>, << Across(57, 11, 14) >> } ]

MaskInit ==
    /\ pc = "mask_start"
    /\ image_size \in MaskSizes
    /\ bounds = MaskBounds(image_size)
    /\ lat = 0 /\ lon = 0 /\ pixel = NoValue /\ latlon = NoValue
    /\ geometries_gdf \in GeometryCollections
    /\ tier_streets \in TierCollections
    /\ masks = << >>
    /\ shadow_intensity = ZeroGrid
    /\ sidewalk_mask = {} /\ building_mask = {} /\ street_mask = {}
    /\ vegetation_mask = {} /\ amenities_gdf = << >>
    /\ result = NoValue
    /\ FilterIdle /\ StoreIdle /\ DetectIdle /\ SummaryIdle /\ DownloadIdle

CreateMask ==
    /\ pc = "mask_start"
    /\ masks' = masks @@ ("create_mask" :> create_mask(geometries_gdf, image_size, bounds))
    /\ pc' = "mask_buildings"
    /\ UNCHANGED <<summary_vars, download_vars,
                   geo_vars, calc_vars, filter_vars, store_vars, detect_vars,
                   geometries_gdf, tier_streets>>

CreateStreetMask ==
    /\ pc = "mask_buildings"
    /\ masks' = masks @@ ("create_street_mask" :>
          create_street_mask(tier_streets.pedestrian \o tier_streets.low_traffic
                                \o tier_streets.medium_traffic
                                \o tier_streets.high_traffic,
                             image_size, bounds, STREET_BUFFER_METERS))
    /\ pc' = "mask_streets"
    /\ UNCHANGED <<summary_vars, download_vars,
                   geo_vars, calc_vars, filter_vars, store_vars, detect_vars,
                   geometries_gdf, tier_streets>>

CreateSidewalkMask ==
    /\ pc = "mask_streets"
    /\ masks' = masks @@ ("create_sidewalk_mask" :>
          create_sidewalk_mask(tier_streets.pedestrian, tier_streets.low_traffic,
                               image_size, bounds, SIDEWALK_BUFFER_M))
    /\ pc' = "mask_sidewalks"
    /\ UNCHANGED <<summary_vars, download_vars,
                   geo_vars, calc_vars, filter_vars, store_vars, detect_vars,
                   geometries_gdf, tier_streets>>

CreateComprehensiveStreetMask ==
    /\ pc = "mask_sidewalks"
    /\ masks' = masks @@ ("create_comprehensive_street_mask" :>
          create_comprehensive_street_mask(
              tier_streets.pedestrian, tier_streets.low_traffic,
              tier_streets.medium_traffic, tier_streets.high_traffic,
              image_size, bounds))
    /\ pc' = "mask_comprehensive"
    /\ UNCHANGED <<summary_vars, download_vars,
                   geo_vars, calc_vars, filter_vars, store_vars, detect_vars,
                   geometries_gdf, tier_streets>>

\* the True elements of a boolean array, as pixels <<x, y>>
TruePixels(array) == { <<i[2], i[1]>> : i \in { j \in DOMAIN array : array[j] } }

\* PriorityCalculator.calculate on the masks just made
CalculateOnMasks ==
    /\ pc = "mask_comprehensive"
    /\ sidewalk_mask' = TruePixels(masks["create_sidewalk_mask"])
    /\ building_mask' = TruePixels(masks["create_mask"].mask)
    /\ street_mask' = TruePixels(masks["create_comprehensive_street_mask"])
    /\ result' = calculate(shadow_intensity, sidewalk_mask', building_mask',
                           street_mask', vegetation_mask, amenities_gdf)
    /\ pc' = "mask_scored"
    /\ UNCHANGED <<summary_vars, download_vars,
                   geo_vars, shadow_intensity, vegetation_mask, amenities_gdf,
                   filter_vars, mask_vars, store_vars, detect_vars>>

MaskNext ==
    \/ CreateMask
    \/ CreateStreetMask
    \/ CreateSidewalkMask
    \/ CreateComprehensiveStreetMask
    \/ CalculateOnMasks

SpecMask == MaskInit /\ [][MaskNext]_vars

\* ---- C12 ----
Made(name) == name \in DOMAIN masks

\* the all-False array of shape (height, width)
AllFalse == [i \in (0 .. img_height - 1) \X (0 .. img_width - 1) |-> FALSE]

AllStreetsEmpty == \A t \in Tiers : tier_streets[t] = << >>

\* C12: create_mask, create_street_mask, create_sidewalk_mask and
\* create_comprehensive_street_mask, given only empty geometry collections,
\* return an all-False mask of shape (height, width), and count 0 where a
\* count is returned; none of them raises.
C12_EmptyCollections ==
    /\ Made("create_mask") /\ geometries_gdf = << >> =>
          masks["create_mask"] = [mask |-> AllFalse, count |-> 0]
    /\ Made("create_street_mask") /\ AllStreetsEmpty =>
          masks["create_street_mask"] = [mask |-> AllFalse, count |-> 0]
    /\ Made("create_sidewalk_mask") /\ tier_streets.pedestrian = << >>
          /\ tier_streets.low_traffic = << >> =>
          masks["create_sidewalk_mask"] = AllFalse
    /\ Made("create_comprehensive_street_mask") /\ AllStreetsEmpty =>
          masks["create_comprehensive_street_mask"] = AllFalse

\* the four methods have returned for empty collections only
C12_Witness ==
    /\ pc = "mask_comprehensive"
    /\ geometries_gdf = << >> /\ AllStreetsEmpty
    /\ \A name \in { "create_mask", "create_street_mask", "create_sidewalk_mask",
                     "create_comprehensive_street_mask" } : Made(name)

\* ---- C13 ----
\* the array a method returned
MaskOf(name) ==
    IF name \in { "create_mask", "create_street_mask" } THEN masks[name].mask
    ELSE masks[name]

C14_CountAtMostOnePerGeometry ==
    Made("create_mask") =>
        /\ masks["create_mask"].count <= Len(geometries_gdf)
        /\ ( \A i \in 1 .. Len(geometries_gdf) :
                \/ geometries_gdf[i].geom_type
                      \notin { "Polygon", "MultiPolygon", "LineString" }
                \/ \A k \in 1 .. Len(geometries_gdf[i].parts) :
                      Len(geometries_gdf[i].parts[k]) < 3 )
           => masks["create_mask"].count = 0

\* one MultiPolygon of two rectangles, both drawn and both counted
C14_MultiPolygonCountedTwice ==
    /\ Made("create_mask")
    /\ geometries_gdf = << TwoPartBuilding >>
    /\ masks["create_mask"].count = 2

\* ---- C15 ----
\* the buffer distance of each tier, in metres, as the claim gives it
TierBufferMeters(t) ==
    CASE t = "pedestrian" -> 5
      [] t = "low_traffic" -> 10
      [] t = "medium_traffic" -> 15
      [] t = "high_traffic" -> 25

PixelX(lo) == latlon_to_pixel(0, lo, min_lat, max_lat, min_lon, max_lon,
                              img_height, img_width)[1]
PixelY(la) == latlon_to_pixel(la, 0, min_lat, max_lat, min_lon, max_lon,
                              img_height, img_width)[2]

\* pixel <<x, y>> lies in the raster of street widened by d metres
StreetCovers(street, d, x, y) ==
    LET lons == { c[1] : c \in AllCoords(street) }
        lats == { c[2] : c \in AllCoords(street) }
    IN  /\ AllCoords(street) # {}
        /\ PixelX(SetMin(lons) - d) <= x /\ x <= PixelX(SetMax(lons) + d)
        /\ PixelY(SetMax(lats) + d) <= y /\ y <= PixelY(SetMin(lats) - d)

\* pixel <<x, y>> is True in the mask of tier t
TierCovers(t, x, y) ==
    \E k \in 1 .. Len(tier_streets[t]) :
        StreetCovers(tier_streets[t][k], TierBufferMeters(t), x, y)

\* the mask of each tier on its own, buffered at the tier's distance
TierMasks ==
    [t \in Tiers |-> create_street_mask(tier_streets[t], image_size, bounds,
                                        TierBufferMeters(t)).mask]

\* the four tier masks ORed in the given order of tiers
OrInOrder(tier_masks, order) ==
    np_or(np_or(np_or(tier_masks[order[1]], tier_masks[order[2]]),
                tier_masks[order[3]]), tier_masks[order[4]])

TierOrders == { order \in [1 .. 4 -> Tiers] :
                  \A m, n \in 1 .. 4 : m # n => order[m] # order[n] }

\* C15: create_comprehensive_street_mask is the pixel-wise OR of the four
\* tier masks, each tier buffered at its fixed distance (pedestrian 5 m, low
\* 10 m, medium 15 m, high 25 m): a pixel is True in it iff it is True in at
\* least one tier mask, in whatever order the tiers are processed.
C15_TieredOr ==
    Made("create_comprehensive_street_mask") =>
        /\ \A y \in 0 .. img_height - 1 : \A x \in 0 .. img_width - 1 :
              masks["create_comprehensive_street_mask"][<<y, x>>]
                 <=> \E t \in Tiers : TierCovers(t, x, y)
        /\ LET tier_masks == TierMasks
           IN  \A order \in TierOrders :
                  masks["create_comprehensive_street_mask"]
                     = OrInOrder(tier_masks, order)

\* streets in all four tiers, a pixel that only the high-traffic buffer
\* reaches and a pixel that no buffer reaches
C15_Witness ==
    /\ pc = "mask_comprehensive"
    /\ \A t \in Tiers : \E k \in 1 .. Len(tier_streets[t]) :
          AllCoords(tier_streets[t][k]) # {}
    /\ \E i \in DOMAIN masks["create_comprehensive_street_mask"] :
          /\ masks["create_comprehensive_street_mask"][i]
          /\ TierCovers("high_traffic", i[2], i[1])
          /\ \A t \in Tiers \ { "high_traffic" } : ~ TierCovers(t, i[2], i[1])
    /\ \E i \in DOMAIN masks["create_comprehensive_street_mask"] :
          ~ masks["create_comprehensive_street_mask"][i]

(***************************************************************************)
(* core/transformer.py: GeometryTransformer.align                          *)
(*                                                                         *)
(* Degrees, the scale and the offsets are exact rationals [n, d] in lowest *)
(* terms with d > 0, where the code has floats.  A geometry is the         *)
(* sequence of its vertices <<lon, lat>>; a GeoDataFrame is its geometry   *)
(* column, the sequence of its geometries.                                 *)
(*                                                                         *)
(* Objects live in store; a reference is a position in store.  A call      *)
(* returns the store it leaves behind with the references it returns.      *)
(***************************************************************************)
RECURSIVE GCD(_, _)
GCD(a, b) == IF b = 0 THEN a ELSE GCD(b, a % b)

\* the rational n / d (d # 0)
Q(n, d) ==
    LET g == GCD(Abs(n), Abs(d))
    IN  IF d > 0 THEN [n |-> n \div g, d |-> d \div g]
        ELSE [n |-> (0 - n) \div g, d |-> (0 - d) \div g]
QInt(k) == [n |-> k, d |-> 1]
QAdd(a, b) == Q(a.n * b.d + b.n * a.d, a.d * b.d)
QSub(a, b) == Q(a.n * b.d - b.n * a.d, a.d * b.d)
QMul(a, b) == Q(a.n * b.n, a.d * b.d)
QDiv(a, b) == Q(a.n * b.d, a.d * b.n)

KL_REGIONAL_SCALE == Q(195, 100)
KL_REGIONAL_NORTH_OFFSET == 0 - 5
KL_REGIONAL_EAST_OFFSET == 0 - 10

\* the variant of __init__ that keeps the regional defaults
GeometryTransformer_with_defaults(scale, north_offset_m, east_offset_m) ==
    [ scale |-> KL_REGIONAL_SCALE,
      north_offset_m |-> KL_REGIONAL_NORTH_OFFSET,
      east_offset_m |-> KL_REGIONAL_EAST_OFFSET ]

\* GeometryTransformer.__init__
GeometryTransformer(scale, north_offset_m, east_offset_m) ==
    [ scale |-> scale, north_offset_m |-> north_offset_m,
      east_offset_m |-> east_offset_m ]

\* np.cos(np.radians(center_lat)), at the latitudes where it is rational
np_cos_radians(center_lat) ==
    CASE center_lat = 0 -> Q(1, 1)
      [] center_lat = 60 -> Q(1, 2)
      [] center_lat = 0 - 60 -> Q(1, 2)

meters_to_degrees(meters_north, meters_east, center_lat) ==
    [ lat_offset |-> Q(meters_north, 111000),
      lon_offset |-> QDiv(QInt(meters_east),
                          QMul(QInt(111000), np_cos_radians(center_lat))) ]

\* shapely.affinity.scale(geom, xfact, yfact, origin=(x0, y0)): every vertex
\* goes to (xfact * x + (x0 - x0 * xfact), yfact * y + (y0 - y0 * yfact))
affinity_scale(geom, xfact, yfact, origin) ==
    LET xoff == QSub(origin[1], QMul(origin[1], xfact))
        yoff == QSub(origin[2], QMul(origin[2], yfact))
    IN  [n \in 1 .. Len(geom) |->
            << QAdd(QMul(xfact, geom[n][1]), xoff),
               QAdd(QMul(yfact, geom[n][2]), yoff) >>]

\* shapely.affinity.translate(geom, xoff, yoff)
affinity_translate(geom, xoff, yoff) ==
    [n \in 1 .. Len(geom) |-> << QAdd(geom[n][1], xoff), QAdd(geom[n][2], yoff) >>]

\* the variant of copy that hands back the object itself
DataFrame_alias(st, gdf) == [store |-> st, ref |-> gdf]

\* gdf.copy(): a new object with the same rows
DataFrame_copy(st, gdf) == [store |-> Append(st, st[gdf]), ref |-> Len(st) + 1]

\* gdf_copy['geometry'] = gdf_copy['geometry'].apply(scale about the centre)
assign_scaled(st, gdf_copy, scale, center_lat, center_lon) ==
    [st EXCEPT ![gdf_copy] =
        [i \in 1 .. Len(st[gdf_copy]) |->
            affinity_scale(st[gdf_copy][i], scale, scale,
                           << QInt(center_lon), QInt(center_lat) >>)]]

\* gdf_copy['geometry'] = gdf_copy['geometry'].apply(translate by the offset)
assign_translated(st, gdf_copy, lon_offset, lat_offset) ==
    [st EXCEPT ![gdf_copy] =
        [i \in 1 .. Len(st[gdf_copy]) |->
            affinity_translate(st[gdf_copy][i], lon_offset, lat_offset)]]

\* the variant that translates first and scales afterwards
align_translate_first(st, self, gdf, center_lat, center_lon) ==
    IF Len(st[gdf]) = 0 THEN DataFrame_copy(st, gdf)
    ELSE LET offset == meters_to_degrees(self.north_offset_m, self.east_offset_m,
                                         center_lat)
             copied == DataFrame_copy(st, gdf)
             translated == assign_translated(copied.store, copied.ref,
                                             offset.lon_offset, offset.lat_offset)
             scaled == assign_scaled(translated, copied.ref, self.scale,
                                     center_lat, center_lon)
         IN  [store |-> scaled, ref |-> copied.ref]

align(st, self, gdf, center_lat, center_lon) ==
    IF Len(st[gdf]) = 0 THEN DataFrame_copy(st, gdf)
    ELSE LET offset == meters_to_degrees(self.north_offset_m, self.east_offset_m,
                                         center_lat)
             copied == DataFrame_copy(st, gdf)
             scaled == assign_scaled(copied.store, copied.ref, self.scale,
                                     center_lat, center_lon)
             translated == assign_translated(scaled, copied.ref,
                                             offset.lon_offset, offset.lat_offset)
         IN  [store |-> translated, ref |-> copied.ref]

\* the keys of the dictionary calculate returns
ResultKeys ==
    << "enhanced_priority_score", "critical_priority", "high_priority",
       "medium_priority", "low_priority", "sidewalk_component",
       "building_component", "sun_component", "amenity_component" >>

\* PriorityCalculator.calculate on the objects a names: its arguments are
\* only read, and each array of the returned dictionary is a new object
calculate_from_store(st, a) ==
    LET dict == calculate(st[a.shadow_intensity], st[a.sidewalk_mask],
                          st[a.building_mask], st[a.street_mask],
                          st[a.vegetation_mask], st[a.amenities_gdf])
    IN  IF dict.raised THEN [store |-> st, refs |-> << >>]
        ELSE [ store |-> st \o [k \in 1 .. Len(ResultKeys) |-> dict[ResultKeys[k]]],
               refs |-> [key \in { ResultKeys[k] : k \in 1 .. Len(ResultKeys) } |->
                           Len(st) + (CHOOSE k \in 1 .. Len(ResultKeys) :
                                         ResultKeys[k] = key)] ]

\* ---- inputs of the stages specification ----
StoreImgWidth == 3      \* image width of the stages specification
StoreImgHeight == 2     \* image height of the stages specification

Vertex(lo, la) == << QInt(lo), QInt(la) >>

AlignCollections ==
    { << >>,
      << << Vertex(10, 60), Vertex(11, 61) >> >>,
      << << Vertex(0, 0), Vertex(2, 0), Vertex(2, 1), Vertex(0, 0) >>,
         << Vertex(0 - 1, 0 - 60), Vertex(9, 59) >> >>,
      << << Vertex(10, 0), Vertex(12, 3) >> >> }

AlignScales == { Q(1, 1), KL_REGIONAL_SCALE, Q(1, 2) }
AlignNorthOffsets == { 0, KL_REGIONAL_NORTH_OFFSET }
AlignEastOffsets == { 0, KL_REGIONAL_EAST_OFFSET }
AlignCenterLats == { 0, 60, 0 - 60 }
AlignCenterLons == { 0, 10 }

StagesInit ==
    /\ pc = "stages_start"
    /\ image_size = <<StoreImgWidth, StoreImgHeight>>
    /\ bounds = ImageBounds(image_size)
    /\ lat = 0 /\ lon = 0 /\ pixel = NoValue /\ latlon = NoValue
    /\ \E gdf \in AlignCollections, intensity \in ShadowGrids :
          store = << gdf, intensity, { <<0, 0>> }, { <<2, 1>> }, { <<1, 1>> },
                     { <<1, 0>> }, << AmenityAt(1, 0) >> >>
    /\ \E scale \in AlignScales, north_offset_m \in AlignNorthOffsets,
          east_offset_m \in AlignEastOffsets,
          center_lat \in AlignCenterLats, center_lon \in AlignCenterLons :
          args = [ scale |-> scale, north_offset_m |-> north_offset_m,
                   east_offset_m |-> east_offset_m,
                   gdf |-> 1, center_lat |-> center_lat, center_lon |-> center_lon,
                   shadow_intensity |-> 2, sidewalk_mask |-> 3, building_mask |-> 4,
                   street_mask |-> 5, vegetation_mask |-> 6, amenities_gdf |-> 7 ]
    /\ returned = << >>
    /\ CalcIdle /\ FilterIdle /\ MaskIdle /\ DetectIdle /\ SummaryIdle /\ DownloadIdle

Align ==
    /\ pc = "stages_start"
    /\ LET self == GeometryTransformer(args.scale, args.north_offset_m,
                                       args.east_offset_m)
           r == align(store, self, args.gdf, args.center_lat, args.center_lon)
       IN  /\ store' = r.store
           /\ returned' = returned @@ ("align" :> [gdf |-> r.ref])
    /\ pc' = "stages_aligned"
    /\ UNCHANGED <<summary_vars, download_vars,
                   geo_vars, calc_vars, filter_vars, mask_vars, detect_vars, args>>

CalculateFromStore ==
    /\ pc = "stages_aligned"
    /\ LET r == calculate_from_store(store, args)
       IN  /\ store' = r.store
           /\ returned' = returned @@ ("calculate" :> r.refs)
    /\ pc' = "stages_scored"
    /\ UNCHANGED <<summary_vars, download_vars,
                   geo_vars, calc_vars, filter_vars, mask_vars, detect_vars, args>>

StagesNext == Align \/ CalculateFromStore

SpecStages == StagesInit /\ [][StagesNext]_vars

\* ---- C16 ----
Aligned == "align" \in DOMAIN returned

gdf_in == store[args.gdf]
gdf_out == store[returned["align"].gdf]

\* C16: align with scale = 1, north offset = 0 and east offset = 0 returns
\* geometries whose every vertex coordinate equals the corresponding input
\* vertex coordinate, for any centre point.
C16_IdentityAlignment ==
    Aligned /\ args.scale = Q(1, 1) /\ args.north_offset_m = 0
        /\ args.east_offset_m = 0 =>
        /\ Len(gdf_out) = Len(gdf_in)
        /\ \A i \in 1 .. Len(gdf_in) :
              /\ Len(gdf_out[i]) = Len(gdf_in[i])
              /\ \A n \in 1 .. Len(gdf_in[i]) : gdf_out[i][n] = gdf_in[i][n]

\* an identity transformer was applied to geometries away from the centre,
\* about a centre that is not the origin
C16_Witness ==
    /\ Aligned /\ args.scale = Q(1, 1) /\ args.north_offset_m = 0
    /\ args.east_offset_m = 0
    /\ args.center_lat = 60 /\ args.center_lon = 10
    /\ Len(gdf_in) = 2

\* ---- C17 ----
\* C17: align maps every vertex v to
\*   center + scale * (v - center) + (lonOffset, latOffset)
\* with latOffset = northOffsetMeters / 111000 and
\* lonOffset = eastOffsetMeters / (111000 * cos(centerLat)): the scaling about
\* (centerLon, centerLat) comes first, the translation comes after it and is
\* not scaled.  With scale = sn / sd and cos(centerLat) = cn / cd the image
\* of the longitude x is
\*   ((sd * cx + sn * (x - cx)) * 111000 * cn + east * cd * sd) / (sd * 111000 * cn)
\* and the image of the latitude y is
\*   ((sd * cy + sn * (y - cy)) * 111000 + north * sd) / (sd * 111000).
C17_ScaleThenTranslate ==
    Aligned =>
        /\ Len(gdf_out) = Len(gdf_in)
        /\ \A i \in 1 .. Len(gdf_in) :
              /\ Len(gdf_out[i]) = Len(gdf_in[i])
              /\ \A n \in 1 .. Len(gdf_in[i]) :
                    LET x == gdf_in[i][n][1].n
                        y == gdf_in[i][n][2].n
                        cx == args.center_lon
                        cy == args.center_lat
                        sn == args.scale.n
                        sd == args.scale.d
                        cn == np_cos_radians(cy).n
                        cd == np_cos_radians(cy).d
                    IN  /\ gdf_out[i][n][1] =
                              Q((sd * cx + sn * (x - cx)) * 111000 * cn
                                   + args.east_offset_m * cd * sd,
                                sd * 111000 * cn)
                        /\ gdf_out[i][n][2] =
                              Q((sd * cy + sn * (y - cy)) * 111000
                                   + args.north_offset_m * sd,
                                sd * 111000)

\* the regional scale and offsets applied at latitude 60, where the cosine
\* is 1/2, to vertices away from the centre
C17_Witness ==
    /\ Aligned
    /\ args.scale = KL_REGIONAL_SCALE
    /\ args.north_offset_m = KL_REGIONAL_NORTH_OFFSET
    /\ args.east_offset_m = KL_REGIONAL_EAST_OFFSET
    /\ args.center_lat = 60 /\ args.center_lon = 10
    /\ Len(gdf_in) = 2
    /\ gdf_out[2][2] # gdf_in[2][2]

\* ---- C18 ----
\* the references a call has returned, by method name
ReturnedRefs(ret, name) == { ret[name][key] : key \in DOMAIN ret[name] }

\* C18: no stage mutates its inputs.  Every step leaves every object that
\* existed before it as it was - the geometry collection given to align,
\* the shadow-intensity grid and the four masks given to calculate - and
\* everything a call returns is a new object: the collection align returns
\* (an empty one for an empty input) and each array of calculate's result.
C18_InputsNotMutated ==
    [][ /\ \A ref \in DOMAIN store : store'[ref] = store[ref]
        /\ \A name \in DOMAIN returned' \ DOMAIN returned :
              /\ ReturnedRefs(returned', name) \cap DOMAIN store = {}
              /\ ReturnedRefs(returned', name) \subseteq DOMAIN store'
              /\ Cardinality(ReturnedRefs(returned', name))
                    = Cardinality(DOMAIN returned'[name])
        /\ ( "align" \in DOMAIN returned' \ DOMAIN returned
               /\ Len(store[args.gdf]) = 0 )
           => store'[returned'["align"].gdf] = << >>
      ]_vars

\* both stages have run: align on a collection it had to move, calculate
\* with a result of nine arrays
C18_Witness ==
    /\ pc = "stages_scored"
    /\ Len(gdf_in) > 0 /\ gdf_out # gdf_in
    /\ Cardinality(DOMAIN returned["calculate"]) = 9

(***************************************************************************)
(* core/detector.py: VegetationDetector.detect                             *)
(*                                                                         *)
(* img_array is the array of shape (height, width) of the pixels           *)
(* <<red, green, blue>>, each channel in 0 .. 255.  NDVI is kept as        *)
(* [diff, sum, epsilon], which stands for the quotient                     *)
(* diff / (sum + epsilon * 1e-8).                                          *)
(***************************************************************************)
NDVI_THRESHOLD == Q(2, 10)
MIN_VEGETATION_BRIGHTNESS == 60
SHADOW_BRIGHTNESS_THRESHOLD == 95
SHADOW_DESATURATION_THRESHOLD == 60
SHADOW_VERY_DARK_THRESHOLD == 70
SHADOW_MIN_SIZE_PIXELS == 20

\* OpenCV's table of (255 << 12) / v, rounded to the nearest integer
sdiv_table(v) == IF v = 0 THEN 0 ELSE (2 * 255 * 4096 + v) \div (2 * v)

\* cv2.cvtColor(img_array, cv2.COLOR_RGB2HSV) on 8-bit channels, one pixel:
\* v = max(r, g, b), s = (diff * sdiv_table[v] + (1 << 11)) >> 12 with
\* diff = v - min(r, g, b); the hue is not used by the detector
RGB2HSV(rgb) ==
    LET v == Max(rgb[1], Max(rgb[2], rgb[3]))
        vmin == Min(rgb[1], Min(rgb[2], rgb[3]))
    IN  [ s |-> ((v - vmin) * sdiv_table(v) + 2048) \div 4096, v |-> v ]

cvtColor(array) == [i \in DOMAIN array |-> RGB2HSV(array[i])]

\* the variant that divides by green + red alone
ndvi_of_without_epsilon(rgb) ==
    [diff |-> rgb[2] - rgb[1], sum |-> rgb[2] + rgb[1], epsilon |-> 0]

\* (green - red) / (green + red + 1e-8) of one pixel
ndvi_of(rgb) == [diff |-> rgb[2] - rgb[1], sum |-> rgb[2] + rgb[1], epsilon |-> 1]

\* ndvi > threshold for a threshold n / d with 0 < n * 1e-8 < 1:
\* diff / (sum + 1e-8) > n / d  iff  diff * d - n * sum > n * 1e-8
\*                              iff  diff * d - n * sum >= 1
ndvi_greater(ndvi, threshold) ==
    ndvi.diff * threshold.d - threshold.n * ndvi.sum >= 1

\* the variant without the brightness requirement
_detect_vegetation_by_ndvi_only(array, ndvi_threshold, min_brightness) ==
    LET ndvi == [i \in DOMAIN array |-> ndvi_of(array[i])]
    IN  [ vegetation_mask |->
            [i \in DOMAIN array |-> ndvi_greater(ndvi[i], ndvi_threshold)],
          ndvi |-> ndvi ]

\* returns (vegetation_mask, ndvi)
_detect_vegetation(array, ndvi_threshold, min_brightness) ==
    LET ndvi == [i \in DOMAIN array |-> ndvi_of(array[i])]
        hsv == cvtColor(array)
    IN  [ vegetation_mask |->
            [i \in DOMAIN array |->
                ndvi_greater(ndvi[i], ndvi_threshold) /\ hsv[i].v > min_brightness],
          ndvi |-> ndvi ]

_detect_shadows_simple(array, vegetation) ==
    LET hsv == cvtColor(array)
    IN  [i \in DOMAIN array |->
            /\ hsv[i].v < SHADOW_BRIGHTNESS_THRESHOLD
            /\ hsv[i].s < SHADOW_DESATURATION_THRESHOLD
            /\ ~ vegetation[i]]

\* the variant that does not exclude vegetation
_detect_shadows_very_dark_with_vegetation(array, vegetation) ==
    LET hsv == cvtColor(array)
    IN  [i \in DOMAIN array |-> hsv[i].v < SHADOW_VERY_DARK_THRESHOLD]

_detect_shadows_very_dark(array, vegetation) ==
    LET hsv == cvtColor(array)
    IN  [i \in DOMAIN array |->
            hsv[i].v < SHADOW_VERY_DARK_THRESHOLD /\ ~ vegetation[i]]

\* j lies under the 3 x 3 kernel centred at i
Under3x3(i, j) == Abs(j[1] - i[1]) <= 1 /\ Abs(j[2] - i[2]) <= 1

\* dilation and erosion by the 3 x 3 kernel; OpenCV's default border leaves
\* the places outside the array out of account
cv2_dilate(array) ==
    [i \in DOMAIN array |-> \E j \in DOMAIN array : Under3x3(i, j) /\ array[j]]
cv2_erode(array) ==
    [i \in DOMAIN array |-> \A j \in DOMAIN array : Under3x3(i, j) => array[j]]

\* cv2.morphologyEx(array, cv2.MORPH_CLOSE, np.ones((3, 3)), iterations=1)
morphologyEx_close(array) == cv2_erode(cv2_dilate(array))

\* the 8-connected component of the set foreground that holds the set grown
RECURSIVE GrowComponent(_, _)
GrowComponent(foreground, grown) ==
    LET more == { j \in foreground \ grown : \E i \in grown : Under3x3(i, j) }
    IN  IF more = {} THEN grown
        ELSE GrowComponent(foreground, grown \cup more)

\* cv2.connectedComponentsWithStats with connectivity 8 and the loop over
\* its labels: the union of the components of at least min_size elements
RECURSIVE LargeComponents(_, _)
LargeComponents(foreground, min_size) ==
    IF foreground = {} THEN {}
    ELSE LET seed == CHOOSE i \in foreground : TRUE
             component == GrowComponent(foreground, { seed })
         IN  (IF Cardinality(component) >= min_size THEN component ELSE {})
                \cup LargeComponents(foreground \ component, min_size)

\* the variant that keeps only the components larger than the minimum size
_cleanup_shadows_above_min_size(shadow_mask) ==
    LET shadow_combined == morphologyEx_close(shadow_mask)
        kept == LargeComponents({ i \in DOMAIN shadow_mask : shadow_combined[i] },
                                SHADOW_MIN_SIZE_PIXELS + 1)
    IN  [i \in DOMAIN shadow_mask |-> i \in kept]

_cleanup_shadows(shadow_mask) ==
    LET shadow_combined == morphologyEx_close(shadow_mask)
        kept == LargeComponents({ i \in DOMAIN shadow_mask : shadow_combined[i] },
                                SHADOW_MIN_SIZE_PIXELS)
    IN  [i \in DOMAIN shadow_mask |-> i \in kept]

\* ---- inputs of the detector specification ----
DetectImgWidth == 6     \* image width of the detector specification
DetectImgHeight == 5    \* image height of the detector specification

Black == <<0, 0, 0>>
White == <<255, 255, 255>>

\* colours on both sides of every threshold of the detector
Palette ==
    { Black, White,
      <<60, 60, 60>>, <<69, 0, 0>>, <<70, 0, 0>>,       \* brightness 70
      <<94, 94, 94>>, <<95, 95, 95>>,                   \* brightness 95
      <<85, 85, 65>>, <<85, 85, 66>>,                   \* saturation 60
      <<30, 60, 0>>, <<30, 61, 0>>,                     \* green, brightness 60
      <<40, 60, 100>>, <<40, 61, 100>>, <<2, 3, 200>>,  \* NDVI 0.2
      <<30, 200, 30>>, <<0, 1, 0>>, <<200, 30, 30>>,
      <<255, 0, 0>>, <<0, 255, 0>>, <<255, 255, 0>> }   \* pure red, green, yellow

\* how many pixels, counted row by row, are black; the others are white
DarkCounts == { SHADOW_MIN_SIZE_PIXELS - 1, SHADOW_MIN_SIZE_PIXELS,
                SHADOW_MIN_SIZE_PIXELS + 1, DetectImgWidth * DetectImgHeight }

\* the one pixel that takes a colour of the palette
Probes == { <<2, 2>>, <<DetectImgHeight - 1, DetectImgWidth - 1>> }

\* a black region that its 3 x 3 closing leaves as it is: two rows, half of
\* the third, and two columns down to the last row (19 pixels)
Stair == { i \in Index(<<DetectImgHeight, DetectImgWidth>>) :
             i[1] < 2 \/ (i[1] = 2 /\ i[2] < 3) \/ i[2] < 2 }

DetectImages ==
    { [i \in Index(<<DetectImgHeight, DetectImgWidth>>) |->
          IF i = probe THEN colour
          ELSE IF i[1] * DetectImgWidth + i[2] < dark THEN Black ELSE White] :
        dark \in DarkCounts, probe \in Probes, colour \in Palette }
    \cup
    { [i \in Index(<<DetectImgHeight, DetectImgWidth>>) |->
          IF i = probe THEN colour ELSE IF i \in Stair THEN Black ELSE White] :
        probe \in Probes, colour \in Palette }

DetectInit ==
    /\ pc = "detect_start"
    /\ image_size = <<DetectImgWidth, DetectImgHeight>>
    /\ bounds = ImageBounds(image_size)
    /\ lat = 0 /\ lon = 0 /\ pixel = NoValue /\ latlon = NoValue
    /\ img_array \in DetectImages
    /\ detection = << >>
    /\ CalcIdle /\ FilterIdle /\ MaskIdle /\ StoreIdle /\ SummaryIdle /\ DownloadIdle

\* Step 1 of detect
DetectVegetation ==
    /\ pc = "detect_start"
    /\ LET found == _detect_vegetation(img_array, NDVI_THRESHOLD,
                                       MIN_VEGETATION_BRIGHTNESS)
       IN  detection' = detection @@ ("vegetation_mask" :> found.vegetation_mask)
                                  @@ ("ndvi" :> found.ndvi)
    /\ pc' = "detect_vegetation"
    /\ UNCHANGED <<summary_vars, download_vars,
                   geo_vars, calc_vars, filter_vars, mask_vars, store_vars, img_array>>

\* Step 2 of detect: shadow_combined = shadow_very_dark | shadow_simple
DetectShadows ==
    /\ pc = "detect_vegetation"
    /\ LET shadow_very_dark ==
               _detect_shadows_very_dark(img_array, detection["vegetation_mask"])
           shadow_simple ==
               _detect_shadows_simple(img_array, detection["vegetation_mask"])
       IN  detection' = detection
               @@ ("shadow_combined" :> np_or(shadow_very_dark, shadow_simple))
    /\ pc' = "detect_combined"
    /\ UNCHANGED <<summary_vars, download_vars,
                   geo_vars, calc_vars, filter_vars, mask_vars, store_vars, img_array>>

\* Step 3 of detect, and its return
CleanupShadows ==
    /\ pc = "detect_combined"
    /\ detection' = detection
           @@ ("shadow_cleaned" :> _cleanup_shadows(detection["shadow_combined"]))
    /\ pc' = "detect_done"
    /\ UNCHANGED <<summary_vars, download_vars,
                   geo_vars, calc_vars, filter_vars, mask_vars, store_vars, img_array>>

DetectNext == DetectVegetation \/ DetectShadows \/ CleanupShadows

SpecDetect == DetectInit /\ [][DetectNext]_vars

\* ---- C19 ----
Red(i) == img_array[i][1]
Green(i) == img_array[i][2]
Blue(i) == img_array[i][3]

\* the HSV value of pixel i: its largest channel
Brightness(i) == Max(Red(i), Max(Green(i), Blue(i)))

\* NDVI = (green - red) / (green + red + 1e-8) exceeds 0.2 = 1/5: for whole
\* channel values that is 5 * (green - red) > green + red
NdviAboveThreshold(i) == 5 * (Green(i) - Red(i)) > Green(i) + Red(i)

\* C19: a pixel is in the vegetation mask iff its NDVI exceeds the NDVI
\* threshold (0.2) and its HSV brightness exceeds the minimum brightness
\* (60); in particular no pixel of brightness <= 60 is vegetation, however
\* green it is.
C19_VegetationPredicate ==
    "vegetation_mask" \in DOMAIN detection =>
        \A i \in DOMAIN img_array :
            /\ detection["vegetation_mask"][i]
                  <=> (NdviAboveThreshold(i) /\ Brightness(i) > 60)
            /\ Brightness(i) <= 60 => ~ detection["vegetation_mask"][i]

\* a green pixel of brightness 60 that is not vegetation
C19_Witness ==
    /\ "vegetation_mask" \in DOMAIN detection
    /\ \E i \in DOMAIN img_array :
          /\ NdviAboveThreshold(i) /\ Brightness(i) = 60
          /\ ~ detection["vegetation_mask"][i]

\* a green pixel of brightness 61 that is vegetation
C19_VegetationWitness ==
    /\ "vegetation_mask" \in DOMAIN detection
    /\ \E i \in DOMAIN img_array :
          Brightness(i) = 61 /\ detection["vegetation_mask"][i]

\* ---- C20 ----
\* the HSV saturation of pixel i
Saturation(i) == RGB2HSV(img_array[i]).s

\* C20: before cleanup a pixel is shadow iff it is not vegetation and
\* (brightness < 70, or brightness < 95 and saturation < 60); hence the
\* shadow mask before cleanup is disjoint from the vegetation mask, and an
\* all-black image gives a shadow mask before cleanup that is True at every
\* pixel.
C20_ShadowPredicate ==
    "shadow_combined" \in DOMAIN detection =>
        /\ \A i \in DOMAIN img_array :
              /\ detection["shadow_combined"][i]
                    <=> /\ ~ detection["vegetation_mask"][i]
                        /\ \/ Brightness(i) < 70
                           \/ Brightness(i) < 95 /\ Saturation(i) < 60
              /\ ~ (detection["shadow_combined"][i] /\ detection["vegetation_mask"][i])
        /\ (\A i \in DOMAIN img_array : img_array[i] = Black)
              => \A i \in DOMAIN img_array : detection["shadow_combined"][i]

\* before cleanup: a vegetation pixel darker than 70 that is kept out of the
\* shadow mask, beside pixels that are shadow
C20_Witness ==
    /\ pc = "detect_combined"
    /\ \E i \in DOMAIN img_array :
          /\ detection["vegetation_mask"][i] /\ Brightness(i) < 70
          /\ ~ detection["shadow_combined"][i]
    /\ \E i \in DOMAIN img_array : detection["shadow_combined"][i]

\* before cleanup: the all-black image, its shadow mask True everywhere
C20_AllBlackWitness ==
    /\ pc = "detect_combined"
    /\ \A i \in DOMAIN img_array :
          img_array[i] = Black /\ detection["shadow_combined"][i]

\* ---- C21 ----
\* the True places of a boolean array
TrueAt(array) == { i \in DOMAIN array : array[i] }

\* the 3 x 3 closing, stated per place: every 3 x 3 window that holds i holds
\* a True place of the array
ClosedAt(array, i) ==
    \A j \in DOMAIN array :
        Under3x3(i, j) => \E k \in DOMAIN array : Under3x3(j, k) /\ array[k]

\* the 8-connected components of a set of places
RECURSIVE ComponentsOf(_)
ComponentsOf(foreground) ==
    IF foreground = {} THEN {}
    ELSE LET component == GrowComponent(foreground, { CHOOSE i \in foreground : TRUE })
         IN  { component } \cup ComponentsOf(foreground \ component)

Cleaned == pc = "detect_done"

\* C21: the mask returned by _cleanup_shadows is a subset of the 3 x 3
\* closing of its input, every 8-connected component of the returned mask has
\* at least SHADOW_MIN_SIZE_PIXELS (20) pixels, and a component of the closed
\* mask is kept whole when it has 20 pixels or more and removed whole when it
\* has 19 or fewer.
C21_CleanupComponents ==
    Cleaned =>
        LET closed == { i \in DOMAIN img_array : ClosedAt(detection["shadow_combined"], i) }
            cleaned == TrueAt(detection["shadow_cleaned"])
        IN  /\ cleaned \subseteq closed
            /\ \A c \in ComponentsOf(cleaned) : Cardinality(c) >= 20
            /\ \A c \in ComponentsOf(closed) :
                   IF Cardinality(c) >= 20 THEN c \subseteq cleaned
                                           ELSE c \cap cleaned = {}

\* a cleanup whose closing filled a hole of the input and so made a component
\* of exactly 20 pixels, which was kept, beside places that are not shadow
C21_Witness ==
    /\ Cleaned
    /\ Cardinality(TrueAt(detection["shadow_combined"])) = 19
    /\ Cardinality(TrueAt(detection["shadow_cleaned"])) = 20
    /\ \E i \in DOMAIN img_array : ~ detection["shadow_cleaned"][i]

\* a cleanup that removed a component of 19 pixels
C21_RemovedWitness ==
    /\ Cleaned
    /\ Cardinality(TrueAt(morphologyEx_close(detection["shadow_combined"]))) = 19
    /\ TrueAt(detection["shadow_cleaned"]) = {}

\* ---- C22 ----
\* the quotient diff / (sum + epsilon * 1e-8) exists: its divisor is not 0
NdviDefined(ndvi) == ndvi.sum + ndvi.epsilon > 0

\* -1 < quotient < 1: |diff| < sum + epsilon * 1e-8, for whole diff and sum
NdviInsideUnit(ndvi) ==
    Abs(ndvi.diff) < ndvi.sum \/ (Abs(ndvi.diff) = ndvi.sum /\ ndvi.epsilon > 0)

\* 0 < 1 - quotient <= 1e-8: the quotient's distance from 1 is
\* epsilon * 1e-8 / (sum + epsilon * 1e-8) when diff = sum
NdviNearOne(ndvi) == ndvi.diff = ndvi.sum /\ ndvi.sum >= 1 /\ ndvi.epsilon > 0

\* C22: NDVI = (green - red) / (green + red + epsilon) is defined for every
\* pixel, black included (where it is 0), has the sign of green - red, is
\* negative for (255, 0, 0), positive and within epsilon of 1 for (0, 255, 0),
\* and always lies strictly between -1 and 1.
C22_NdviRange ==
    "ndvi" \in DOMAIN detection =>
        \A i \in DOMAIN img_array :
            LET ndvi == detection["ndvi"][i]
            IN  /\ NdviDefined(ndvi)
                /\ ndvi.diff = Green(i) - Red(i)
                /\ ndvi.sum = Green(i) + Red(i)
                /\ img_array[i] = Black => ndvi.diff = 0
                /\ img_array[i] = <<255, 0, 0>> => ndvi.diff < 0
                /\ img_array[i] = <<0, 255, 0>> => ndvi.diff > 0 /\ NdviNearOne(ndvi)
                /\ NdviInsideUnit(ndvi)

\* an image with a black pixel and a pure green one, NDVI computed
C22_Witness ==
    /\ "ndvi" \in DOMAIN detection
    /\ \E i \in DOMAIN img_array : img_array[i] = Black
    /\ \E i \in DOMAIN img_array : img_array[i] = <<0, 255, 0>>

\* an image with a pure red pixel, NDVI computed
C22_RedWitness ==
    /\ "ndvi" \in DOMAIN detection
    /\ \E i \in DOMAIN img_array : img_array[i] = <<255, 0, 0>>

\* ---- C27 ----
\* C27: the shadow mask returned by detect (after cleanup) is disjoint from
\* the vegetation mask returned by the same call: no pixel is reported both
\* as shadow and as vegetation.
C27_ShadowDisjointFromVegetation ==
    Cleaned =>
        \A i \in DOMAIN img_array :
            ~ (detection["shadow_cleaned"][i] /\ detection["vegetation_mask"][i])

\* detect returned a vegetation pixel, left out of the shadow mask before
\* cleanup, that the 3 x 3 closing of _cleanup_shadows put into the shadow mask
C27_VegetationInShadow ==
    /\ Cleaned
    /\ \E i \in DOMAIN img_array :
          /\ detection["vegetation_mask"][i]
          /\ ~ detection["shadow_combined"][i]
          /\ detection["shadow_cleaned"][i]

(***************************************************************************)
(* Further properties of PriorityCalculator.calculate                      *)
(***************************************************************************)
\* ---- C25 ----
\* C25: no valid pixel (not building, not street, not vegetation) is at
\* building distance 0, so for a non-empty building mask its building
\* component is at least 5; its sun component is at least 5; hence every
\* valid pixel has total score > 0 and belongs to exactly one band.
C25_ValidPixelsScored ==
    Returned =>
        \A p \in Pixels :
            IsValid(p) =>
                /\ building_mask # {} =>
                      /\ \A q \in building_mask : DistSq(p, q) > 0
                      /\ result.building_component[p] >= Points(5)
                /\ result.sun_component[p] >= Points(5)
                /\ result.enhanced_priority_score[p] > 0
                /\ Cardinality({ i \in 1 .. 4 : p \in Bands[i] }) = 1

\* an output with a building pixel whose building component is 0 and a
\* valid pixel next to it
C25_Witness ==
    /\ Returned
    /\ \E q \in building_mask :
          /\ result.building_component[q] = 0
          /\ \E p \in Pixels : IsValid(p) /\ DistSq(p, q) = 1

(***************************************************************************)
(* Properties of ResultVisualizer._extract_critical_spots                  *)
(***************************************************************************)
Summarised == pc = "summary_done"

\* the 8-connected components of the critical mask of at least 20 pixels
LargeCritical ==
    { c \in ComponentsOf(result.critical_priority) : Cardinality(c) >= 20 }

\* the sum of the score grid over the pixels of c, in 1/1000 point
ScoreSum(c) == np_sum(result.enhanced_priority_score, c)

\* spot has the area and the centroid of the component c
SpotOf(spot, c) ==
    /\ spot.area_pixels = Cardinality(c)
    /\ spot.coordinates =
          pixel_to_latlon(np_sum([p \in c |-> p[1]], c), np_sum([p \in c |-> p[2]], c),
                          min_lat, max_lat, min_lon, max_lon,
                          img_height * Cardinality(c), img_width * Cardinality(c))

\* the component of a spot of the returned list
ComponentOfSpot(spot) == CHOOSE c \in LargeCritical : SpotOf(spot, c)

\* one spot for each component of at least 20 pixels and no other spot
OneSpotPerLargeComponent ==
    /\ Len(critical_spots) = Cardinality(LargeCritical)
    /\ \A c \in LargeCritical : \E k \in DOMAIN critical_spots : SpotOf(critical_spots[k], c)
    /\ \A k \in DOMAIN critical_spots : \E c \in LargeCritical : SpotOf(critical_spots[k], c)

\* ---- C23 ----
\* C23 (as stated): _extract_critical_spots returns exactly one spot for each
\* 8-connected component of the critical mask that has at least 20 pixels and
\* none for smaller components; each spot's area_pixels is the component's
\* pixel count and its priority score is the mean of the score grid over
\* exactly that component's pixels.
C23_SpotScoreIsMean ==
    Summarised =>
        /\ OneSpotPerLargeComponent
        /\ \A k \in DOMAIN critical_spots :
               LET c == ComponentOfSpot(critical_spots[k])
               IN  critical_spots[k].priority_score * 100 * Cardinality(c) = ScoreSum(c)

\* C23 (amended): one spot for each 8-connected component of at least 20
\* pixels and none for smaller components; area_pixels is the component's
\* pixel count and priority_score is the mean of the score grid over the
\* component's pixels rounded to one decimal place (within 0.05 of the mean).
C23_SpotScoreIsRoundedMean ==
    Summarised =>
        /\ OneSpotPerLargeComponent
        /\ \A k \in DOMAIN critical_spots :
               LET c == ComponentOfSpot(critical_spots[k])
               IN  2 * Abs(critical_spots[k].priority_score * 100 * Cardinality(c)
                             - ScoreSum(c)) <= 100 * Cardinality(c)

\* a summary of a critical mask with a component of fewer than 20 pixels and
\* one of 20 pixels joined through a corner, whose mean score has more than
\* one decimal place
C23_Witness ==
    /\ Summarised
    /\ \E c \in ComponentsOf(result.critical_priority) : Cardinality(c) < 20
    /\ \E k \in DOMAIN critical_spots :
          LET c == ComponentOfSpot(critical_spots[k])
          IN  /\ Bridge \in c
              /\ ScoreSum(c) % (100 * Cardinality(c)) # 0

\* ---- C24 ----
\* the rank, in the raster scan, of the first pixel of the spot's component
FirstRank(spot) == SetMin({ RasterRank(p) : p \in ComponentOfSpot(spot) })

\* the mean score of the first spot's component is at least the second's
MeanAtLeast(a, b) ==
    ScoreSum(ComponentOfSpot(a)) * b.area_pixels
        >= ScoreSum(ComponentOfSpot(b)) * a.area_pixels

\* C24 (as stated): the spot list is sorted by the components' mean score in
\* non-increasing order, and two spots with equal mean score appear in
\* component-label (encounter) order.
C24_SortedByMean ==
    Summarised =>
        \A i, j \in DOMAIN critical_spots :
            i < j =>
                LET a == critical_spots[i]
                    b == critical_spots[j]
                IN  /\ MeanAtLeast(a, b)
                    /\ MeanAtLeast(b, a) => FirstRank(a) < FirstRank(b)

\* C24 (amended): the spot list is sorted by priority_score, the mean score
\* rounded to one decimal place, in non-increasing order; two spots with
\* equal priority_score appear in component-label (encounter) order, whatever
\* their means.
C24_SortedByRoundedMean ==
    Summarised =>
        \A i, j \in DOMAIN critical_spots :
            i < j =>
                LET a == critical_spots[i]
                    b == critical_spots[j]
                IN  /\ a.priority_score >= b.priority_score
                    /\ a.priority_score = b.priority_score
                          => a.spot_id < b.spot_id /\ FirstRank(a) < FirstRank(b)

\* a list of two spots of equal priority_score, the first of the smaller mean
C24_Witness ==
    /\ Summarised
    /\ Len(critical_spots) = 2
    /\ critical_spots[1].priority_score = critical_spots[2].priority_score
    /\ ~ MeanAtLeast(critical_spots[1], critical_spots[2])

\* a list of two spots in which the sort put the second label first
C24_ReorderedWitness ==
    /\ Summarised
    /\ Len(critical_spots) = 2
    /\ critical_spots[1].spot_id = 2

\* ---- C26 ----
\* C26: the total score never exceeds 90 (the gap-fill component is always
\* 0); a pixel is in the critical band (score >= 80) only if its sidewalk
\* component is 35 (it is within 20 px of a sidewalk pixel) and its building
\* component is at least 15; so the critical band and the spot list are
\* empty whenever the sidewalk mask is empty or the building mask is empty.
C26_CriticalNeedsSidewalkAndBuilding ==
    (Returned \/ Summarised) =>
        /\ \A p \in Pixels : result.enhanced_priority_score[p] <= Points(90)
        /\ \A p \in result.critical_priority :
               /\ result.sidewalk_component[p] = Points(35)
               /\ \E q \in sidewalk_mask : DistSq(p, q) <= 20 * 20
               /\ result.building_component[p] >= Points(15)
        /\ (sidewalk_mask = {} \/ building_mask = {}) =>
               /\ result.critical_priority = {}
               /\ Summarised => critical_spots = <<>>

\* a summary with a spot, of an output whose critical band holds a pixel of
\* building component 15 and borders a pixel of sidewalk component 35 and
\* building component 10 that is valid and not critical
C26_Witness ==
    /\ Summarised
    /\ critical_spots # <<>>
    /\ \E p \in result.critical_priority : result.building_component[p] = Points(15)
    /\ \E p \in Pixels \ result.critical_priority :
          /\ IsValid(p)
          /\ result.sidewalk_component[p] = Points(35)
          /\ result.building_component[p] = Points(10)

\* a summary of an output with sidewalks and no buildings: no spot
C26_NoBuildingWitness ==
    /\ Summarised
    /\ sidewalk_mask # {} /\ building_mask = {}
    /\ critical_spots = <<>>

(***************************************************************************)
(* Further properties of PriorityCalculator._calculate_amenity_priority    *)
(***************************************************************************)
\* ---- C28 ----
\* the lengths, on one axis of length n, of the density-map window
\* [start:stop] and of the kernel window [k_start:k_stop] for an amenity at
\* coordinate px of that axis
WindowLengths(px, n) ==
    LET start == Max(0, px - radius_px)
        stop == Min(n, px + radius_px + 1)
        k_start == radius_px - (px - start)
        k_stop == radius_px + (stop - px)
    IN  [ map |-> PySlice(start, stop, n)[2],
          kernel |-> PySlice(k_start, k_stop, kernel_size)[2] ]

\* C28: for every amenity pixel position (px_x, px_y), inside the grid, on
\* its border or outside it by any amount, the density-map window and the
\* kernel window of _calculate_amenity_priority have identical shapes, so
\* the accumulation never raises (it adds the part of the kernel that
\* overlaps the grid, nothing when the kernel lies wholly outside).
C28_WindowsMatchEverywhere ==
    /\ pc # "amenity_raised"
    /\ pc \in { "amenity_start", "amenity_done" } =>
          \A k \in DOMAIN ProjectedPoints :
              LET x == WindowLengths(ProjectedPoints[k][1], img_width)
                  y == WindowLengths(ProjectedPoints[k][2], img_height)
              IN  x.map = x.kernel /\ y.map = y.kernel

\* _calculate_amenity_priority raised on an amenity that lies right of the
\* grid by more than the kernel radius: the density-map window is empty, the
\* kernel window is not
C28_RaisedRightOfGrid ==
    /\ pc = "amenity_raised"
    /\ \E k \in DOMAIN ProjectedPoints :
          /\ ProjectedPoints[k][1] = img_width + radius_px + 5
          /\ WindowLengths(ProjectedPoints[k][1], img_width).map = 0
          /\ WindowLengths(ProjectedPoints[k][1], img_width).kernel = kernel_size - 5

\* _calculate_amenity_priority returned for amenities inside the grid and on
\* its border (px_x = width): every window pair has matching lengths
C28_BorderWitness ==
    /\ pc = "amenity_done"
    /\ \E k \in DOMAIN ProjectedPoints : ProjectedPoints[k][1] = img_width
    /\ \A k \in DOMAIN ProjectedPoints :
          WindowLengths(ProjectedPoints[k][1], img_width).map
            = WindowLengths(ProjectedPoints[k][1], img_width).kernel

(***************************************************************************)
(* Further properties of MaskGenerator                                     *)
(***************************************************************************)
\* ---- C29 ----
\* C29: for the same pedestrian and low-traffic street sets every True pixel
\* of create_sidewalk_mask (both sets buffered 5 m) is True in
\* create_comprehensive_street_mask (pedestrian 5 m, low 10 m); hence every
\* sidewalk pixel is outside the valid area, has total score 0 and is in no
\* band.
C29_SidewalkInsideStreetMask ==
    /\ Made("create_comprehensive_street_mask") =>
          \A i \in DOMAIN masks["create_sidewalk_mask"] :
              masks["create_sidewalk_mask"][i]
                 => masks["create_comprehensive_street_mask"][i]
    /\ pc = "mask_scored" =>
          \A p \in sidewalk_mask :
              /\ ~ IsValid(p)
              /\ result.enhanced_priority_score[p] = 0
              /\ \A i \in 1 .. 4 : p \notin Bands[i]

\* scored masks in which sidewalk pixels come from a pedestrian street and
\* from a low-traffic street, a street pixel is not a sidewalk pixel, and a
\* pixel near the sidewalk is valid with a positive score
C29_Witness ==
    /\ pc = "mask_scored"
    /\ tier_streets.pedestrian # << >> /\ tier_streets.low_traffic # << >>
    /\ tier_streets.medium_traffic = << >> /\ tier_streets.high_traffic = << >>
    /\ sidewalk_mask # {}
    /\ street_mask \ sidewalk_mask # {}
    /\ \E p \in Pixels :
          IsValid(p) /\ result.sidewalk_component[p] = Points(SCORE_SIDEWALK)

(***************************************************************************)
(* core/downloader.py: DataDownloader._download_buildings and              *)
(* DataDownloader._download_streets                                        *)
(*                                                                         *)
(* download.responses[k] is what the k-th call of the OSM library does:    *)
(* it raises, or it returns rows [geom_type, is_valid, intersects].        *)
(* time.sleep(wait_time) is kept as the sequence of the waits.             *)
(***************************************************************************)
\* a call that raises, and a call that returns rows
Raises == [raised |-> TRUE, rows |-> << >>]
Returns(rows) == [raised |-> FALSE, rows |-> rows]

GeoDataFrame(rows) == [type |-> "GeoDataFrame", rows |-> rows]

\* what a function returns when it ends without a return statement
None_returned == [type |-> "NoneType", rows |-> << >>]

\* raw_buildings[raw_buildings.geometry.type.isin(['Polygon', 'MultiPolygon'])]
polygons_only(rows) ==
    SelectSeq(rows, LAMBDA row : row.geom_type \in { "Polygon", "MultiPolygon" })

\* "Clip to bounding box": the rows that are valid and intersect bbox_polygon
clip_to_bbox(rows) == SelectSeq(rows, LAMBDA row : row.is_valid /\ row.intersects)

\* the try block of one attempt that did not raise
downloaded(method, rows) ==
    IF method = "_download_buildings" THEN GeoDataFrame(clip_to_bbox(polygons_only(rows)))
    ELSE GeoDataFrame(clip_to_bbox(rows))

\* ---- inputs of the download specification ----
MaxRetries == 3         \* largest max_retries

RawRows ==
    << [geom_type |-> "Polygon", is_valid |-> TRUE, intersects |-> TRUE],
       [geom_type |-> "LineString", is_valid |-> TRUE, intersects |-> TRUE],
       [geom_type |-> "Polygon", is_valid |-> TRUE, intersects |-> FALSE],
       [geom_type |-> "MultiPolygon", is_valid |-> FALSE, intersects |-> TRUE] >>

Responses == { Raises, Returns(<< >>), Returns(RawRows) }

DownloadInit ==
    /\ pc = "download_attempt"
    /\ download \in
          [ method : { "_download_buildings", "_download_streets" },
            max_retries : 0 .. MaxRetries,
            responses : [1 .. MaxRetries -> Responses],
            attempt : { 0 },
            calls : { 0 },
            waits : { << >> },
            returned : { << >> } ]
    /\ GeoIdle /\ CalcIdle /\ FilterIdle /\ MaskIdle /\ StoreIdle /\ DetectIdle
    /\ SummaryIdle

\* an iteration of "for attempt in range(max_retries)" whose try block ends
\* with "return buildings" / "return streets"
AttemptReturns ==
    /\ pc = "download_attempt"
    /\ download.attempt < download.max_retries
    /\ ~ download.responses[download.attempt + 1].raised
    /\ download' =
          [download EXCEPT
              !.calls = @ + 1,
              !.returned = << downloaded(download.method,
                                         download.responses[download.attempt + 1].rows) >>]
    /\ pc' = "download_returned"
    /\ UNCHANGED <<geo_vars, calc_vars, filter_vars, mask_vars, store_vars,
                   detect_vars, summary_vars>>

\* an iteration that ends in "except Exception": it sleeps and goes on to the
\* next attempt, or returns the empty collection
AttemptFails ==
    /\ pc = "download_attempt"
    /\ download.attempt < download.max_retries
    /\ download.responses[download.attempt + 1].raised
    /\ IF download.attempt < download.max_retries - 1
       THEN /\ download' =
                  [download EXCEPT
                      !.calls = @ + 1,
                      !.waits = Append(@, (download.attempt + 1) * 5),
                      !.attempt = @ + 1]
            /\ pc' = "download_attempt"
       ELSE /\ download' =
                  [download EXCEPT
                      !.calls = @ + 1,
                      !.returned = << GeoDataFrame(<< >>) >>]
            /\ pc' = "download_returned"
    /\ UNCHANGED <<geo_vars, calc_vars, filter_vars, mask_vars, store_vars,
                   detect_vars, summary_vars>>

\* range(max_retries) has no iteration left: the function body ends
RangeExhausted ==
    /\ pc = "download_attempt"
    /\ ~ (download.attempt < download.max_retries)
    /\ download' = [download EXCEPT !.returned = << None_returned >>]
    /\ pc' = "download_returned"
    /\ UNCHANGED <<geo_vars, calc_vars, filter_vars, mask_vars, store_vars,
                   detect_vars, summary_vars>>

DownloadNext == AttemptReturns \/ AttemptFails \/ RangeExhausted

SpecDownload == DownloadInit /\ [][DownloadNext]_vars

\* the loop runs on: no step of the function waits for anything but sleep
SpecDownloadFair == SpecDownload /\ WF_vars(DownloadNext)

\* ---- C30 ----
Downloaded == pc = "download_returned"

\* the first response that does not raise among the first n, or 0
FirstSuccess(n) ==
    LET ok == { k \in 1 .. n : ~ download.responses[k].raised }
    IN  IF ok = {} THEN 0 ELSE SetMin(ok)

\* what the claim promises of a returned call
ReturnedAsPromised ==
    LET first == FirstSuccess(download.max_retries)
        value == download.returned[1]
    IN  /\ download.calls <= download.max_retries
        /\ value.type = "GeoDataFrame"
        /\ IF first = 0
           THEN /\ value.rows = << >>
                /\ download.waits = [k \in 1 .. download.max_retries - 1 |-> 5 * k]
           ELSE /\ download.calls = first
                /\ \A k \in DOMAIN value.rows :
                       value.rows[k].is_valid /\ value.rows[k].intersects
                /\ download.waits = [k \in 1 .. first - 1 |-> 5 * k]

\* C30: for every max_retries >= 0 and every pattern of download failures,
\* _download_buildings and _download_streets end after at most max_retries
\* attempts without raising and return a geometry collection: the result of
\* the first successful attempt, or an empty collection once all attempts
\* have failed; a wait of (attempt + 1) * 5 seconds follows each failed
\* attempt except the last.
C30_ReturnsCollectionForAnyRetries == Downloaded => ReturnedAsPromised

\* the same for max_retries >= 1
C30_ReturnsCollectionForPositiveRetries ==
    (Downloaded /\ download.max_retries >= 1) => ReturnedAsPromised

\* every call ends
C30_Terminates == <>Downloaded

\* a call with max_retries = 0 returned None without making an attempt
C30_NoneReturned ==
    /\ Downloaded
    /\ download.max_retries = 0
    /\ download.calls = 0
    /\ download.returned[1] = None_returned

\* a call returned the clipped rows of its third attempt after waits of 5 s
\* and 10 s
C30_ThirdAttemptWitness ==
    /\ Downloaded
    /\ download.calls = 3
    /\ download.waits = << 5, 10 >>
    /\ download.returned[1].rows # << >>
====
